---- MODULE Spec2Model ----
(***************************************************************************)
(* Model of the nis2Shield request pipeline of express-nis2-middleware:    *)
(* active defense (static IP block, Tor block, geo block), session guard,  *)
(* rate limiting over the in-memory counter store, the continuation and    *)
(* the audit listener registered on response completion.                   *)
(*                                                                         *)
(* JavaScript runs one task to completion: `cur` is the request whose      *)
(* synchronous code is running (0 when the event loop is idle).  A step    *)
(* that belongs to a running task requires cur = r, a step started by the  *)
(* event loop (a new request, a callback, a timer) requires cur = 0.       *)
(***************************************************************************)
EXTENDS Integers, Sequences, FiniteSets, TLC

\* ---------------------------------------------------------------- bounds
MaxReqs  == 3      \* requests received in one behaviour
MaxSlots == 2      \* requests in flight at the same time
MaxTime  == 2      \* the clock runs 0..MaxTime
MaxLimit == 2      \* rateLimit.max is drawn from 1..MaxLimit
WindowMs == 2      \* rateLimit.windowMs, in clock ticks
MaxCount == 3      \* largest count a store is driven to by direct calls

\* ---------------------------------------------------------------- inputs
TEST_TOR_IP == "6.6.6.6"
IPs       == {"1.2.3.4", "5.5.5.5", TEST_TOR_IP, "7.7.7.7"}
UAs       == {"uaX", "uaY"}
ApiKeys   == {"k1", "k2"}
Keys      == IPs \cup ApiKeys
Reqs      == 1..MaxSlots

\* the list a successful fetch of the Tor bulk exit list returns
TorExitList == {"7.7.7.7"}

\* the list an earlier fetch returned, since replaced upstream
OldExitList == {"5.5.5.5"}

\* the country the GeoIP database holds for an address; "" when the lookup
\* yields no country
DbCountry(ip) ==
    CASE ip = "5.5.5.5" -> "IT"
      [] ip = "7.7.7.7" -> "RU"
      [] ip = "1.2.3.4" -> "DE"
      [] OTHER          -> ""

VARIABLES
    cfg,        \* the merged configuration of this middleware instance
    now,        \* Date.now()
    cur,        \* request whose synchronous code is running, 0 if none
    req,        \* per request in flight: position, inputs, response, observations
    received,   \* requests received so far
    hits,       \* MemoryStore.hits : key -> [count, resetTime]
    session,    \* the session object: its nis2Fingerprint, unbound when absent
    tor,        \* Tor detector cache: exitNodes, lastUpdated, loading; fetches in flight
    geo,        \* GeoIP service: ready, module flag geoipInitialized, pending inits
    notifier,   \* WebhookNotifier: queue of payloads, processing flag
    win,        \* per key, the window its requests fall in: start and arrivals
    allowed,    \* the requests the rate-limit stage has let through
    redis,      \* a RedisStore: its initialized flag and the keys on its server
    anon,       \* an address handed to anonymizeIP and the results of applying it
    audit,      \* an audit record: formatLogEntry's inputs and the line emitted
    webhook,    \* a WebhookNotifier with every step of its delivery loop
    file,       \* a FileTransport and the log files on disk
    siem,       \* outputLog's targets: the primary output and the SIEM transports
    peer        \* the counter store of a second nis2Shield instance

vars == <<cfg, now, cur, req, received, hits, session, tor, geo, notifier, win,
          allowed, redis, anon, audit, webhook, file, siem, peer>>

MaxPayloads == 3
MaxRetries == 2

\* `config.retries ?? 3`
DEFAULT_RETRIES == 3

\* a WebhookNotifier after its constructor: queue = [], processing = false
NewWebhook(retries) ==
    [ retries    |-> retries,   \* config.retries
      queue      |-> << >>,     \* payloads waiting, oldest first
      processing |-> FALSE,
      pc         |-> "idle",    \* idle | sending | sleeping | returned
      current    |-> 0,         \* the payload sendWithRetry was called with
      attempt    |-> 0,         \* the loop variable of sendWithRetry
      sends      |-> 0,         \* send() calls that have not settled
      calls      |-> 0,         \* notify() calls so far; payloads are numbered by them
      accepted   |-> {},        \* payloads notify() has queued
      started    |-> << >>,     \* payloads in the order processQueue took them
      attempts   |-> [p \in 1..MaxPayloads |-> 0],         \* send() calls per payload
      outcome    |-> [p \in 1..MaxPayloads |-> "none"] ]   \* none | delivered | dropped

\* no audit record is being written
\* FileTransport's constructor: `maxFiles ?? 5`; nothing on disk yet.  files maps
\* 0 (the log file itself) and i (the file with suffix .i) to the generation
\* stored under that name; rotated lists the generations renamed away from the
\* log file, the newest first.
MaxFiles == 3
MaxSize == 3
MaxGenerations == 8
DEFAULT_MAX_FILES == 5
NewFileTransport(maxFiles, maxSize) ==
    [maxFiles |-> maxFiles, maxSize |-> maxSize, currentSize |-> 0,
     files |-> << >>, created |-> 0, rotated |-> << >>]

\* SiemTransportManager's transports, in the order the constructor pushes them
Providers == <<"splunk", "datadog", "webhook">>
ProviderSet == {Providers[i] : i \in DOMAIN Providers}
MaxRecords == 2

\* the logging and siem sections outputLog reads, and nothing emitted yet
NewOutputs(output, filePath, customHandler, siemEnabled, providers) ==
    [output |-> output, filePath |-> filePath, customHandler |-> customHandler,
     siemEnabled |-> siemEnabled, providers |-> providers,
     produced |-> 0, primary |-> 0, broadcasts |-> 0,
     sending |-> [p \in ProviderSet |-> 0],
     arrived |-> [p \in ProviderSet |-> 0]]

\* `new MemoryStore(windowMs)` of a second nis2Shield call; own is, per key, the
\* window the requests of that instance fall in: its start and their number
NewPeer == [hits |-> << >>, own |-> << >>]

NoAudit == [opts |-> << >>, base |-> << >>, emitted |-> << >>]

\* no address is being anonymized
NoAddress == [impl |-> "ipUtils", ip |-> << >>, out |-> << >>]

\* ------------------------------------------------------------ configuration
\* mergeConfig: activeDefense is always present; rateLimit has enabled, max and
\* windowMs; sessionGuard, the block lists and logging come from the user.
Configs ==
    [ enabled          : BOOLEAN,
      secHeaders       : BOOLEAN,
      rlEnabled        : BOOLEAN,
      max              : 1..MaxLimit,
      useKeyGen        : BOOLEAN,
      sgEnabled        : BOOLEAN,
      enforceIpBinding : BOOLEAN,
      enforceUaBinding : BOOLEAN,
      logging          : BOOLEAN,
      blockTor         : BOOLEAN,
      webhooks         : {"none", "default", "all"},
      blockedIPs       : {{}, {"1.2.3.4"}, {"1.2.3.4", "7.7.7.7"}},
      blockedCountries : {{}, {"RU"}},
      allowedCountries : {{}, {"IT", "RU"}} ]

\* ------------------------------------------------------------ request state
NewRequest ==
    [ pc         |-> "idle",
      ip         |-> "",        \* getClientIP(req)
      ua         |-> "",        \* req.get('user-agent')
      path       |-> << >>,     \* req.path, character by character
      fp         |-> << >>,     \* req.nis2SessionFingerprint, << >> when not set
      hasSession |-> FALSE,     \* req.session is present
      key        |-> "",        \* rate-limit key
      status     |-> 0,         \* res.statusCode once a response is sent, else 0
      code       |-> "",        \* machine-readable code / error of a deny body
      deniedBy   |-> "",        \* stage that sent the deny response
      nextCalls  |-> 0,         \* invocations of the downstream continuation
      listeners  |-> 0,         \* 'finish' listeners registered by proceed()
      audits     |-> 0,         \* runs of handleAuditing
      finished   |-> FALSE,     \* the response's 'finish' event was emitted
      downstream |-> "none",    \* none | pending | responded | threw
      inc        |-> "none",    \* none | resolve | reject | never
      count      |-> 0,         \* count of the record the increment resolved with
      live       |-> FALSE,     \* that record is awaited and still the key's entry
      ord        |-> 0,         \* the request is the ord-th of its key in its window
      wstart     |-> -1,        \* start of that window
      at         |-> -1,        \* Date.now() of the request's increment
      expired    |-> FALSE,     \* its increment found the key's record expired
      resetTime  |-> 0,         \* resetTime of the record the increment resolved with
      limit      |-> -1,        \* X-RateLimit-Limit, -1 when not set
      remaining  |-> -1,        \* X-RateLimit-Remaining, -1 when not set
      reset      |-> -1,        \* X-RateLimit-Reset, -1 when not set
      via        |-> "",        \* who called next(): try | catch, "" for nis2Shield
      sg         |-> "none",    \* what the session guard did
      stages     |-> << >>,     \* the stages that examined the request, in order
      notifyCalls|-> 0,         \* calls of notifier.notify made for the request
      queued     |-> 0,         \* payloads of the request the notifier took on
      rateLimited|-> FALSE,     \* req.nis2.rateLimited
      nis2       |-> FALSE,     \* req.nis2 was initialised
      secHeaders |-> FALSE ]    \* applySecurityHeaders ran on the response

HeadersSent(r) == req[r].status # 0

Upd(r, changes) == [req EXCEPT ![r] = changes @@ @]

\* increment returns the record object itself, so a request suspended on the
\* resolved promise sees every later count++ on it.  When the record is replaced
\* in the map, the requests still holding the old object keep its last count.
Detach(key) ==
    [q \in Reqs |->
        IF req[q].pc = "resumed" /\ req[q].key = key /\ req[q].live
        THEN [req[q] EXCEPT !.live = FALSE, !.count = hits[key].count]
        ELSE req[q]]

\* a session without nis2Fingerprint
NoFingerprint == [bound |-> FALSE, ip |-> "", userAgent |-> "", establishedAt |-> 0]

\* everything but the address under anonymization
Constructed ==
    /\ cfg \in Configs
    /\ now = 0
    /\ cur = 0
    /\ req = [r \in Reqs |-> NewRequest]
    /\ received = 0
    /\ hits = << >>
    /\ session = NoFingerprint
    /\ tor = [exitNodes |-> {}, lastUpdated |-> 0, loading |-> FALSE,
                 fetches |-> 0, lastFailed |-> FALSE]
    /\ geo = [ready |-> FALSE, geoipInitialized |-> FALSE, pending |-> 0]
    /\ notifier = [queue |-> << >>, processing |-> FALSE]
    /\ win = << >>
    /\ allowed = {}
    /\ redis = [initialized |-> FALSE, keys |-> << >>]

Init ==
    /\ Constructed
    /\ anon = NoAddress
    /\ audit = NoAudit
    /\ webhook = NewWebhook(DEFAULT_RETRIES)
    /\ file = NewFileTransport(DEFAULT_MAX_FILES, MaxSize)
    /\ siem = NewOutputs("console", FALSE, FALSE, FALSE, {})
    /\ peer = NewPeer

\* ------------------------------------------------------- MemoryStore
\* hits.set(key, record)
Put(h, key, rec) == [k \in DOMAIN h \cup {key} |-> IF k = key THEN rec ELSE h[k]]

\* the key has a record whose window has elapsed
Expired(h, key, t) == key \in DOMAIN h /\ h[key].resetTime <= t

\* an increment that takes a record for expired one tick early
IncrementExpiresEarly(h, key, t) ==
    IF key \notin DOMAIN h \/ h[key].resetTime <= t + 1
    THEN Put(h, key, [count |-> 1, resetTime |-> t + WindowMs])
    ELSE Put(h, key, [count |-> h[key].count + 1, resetTime |-> h[key].resetTime])

\* an increment that restarts the window on every hit
IncrementSlides(h, key, t) ==
    IF key \notin DOMAIN h \/ h[key].resetTime <= t
    THEN Put(h, key, [count |-> 1, resetTime |-> t + WindowMs])
    ELSE Put(h, key, [count |-> h[key].count + 1, resetTime |-> t + WindowMs])

\* MemoryStore.increment: a new or expired record starts a window with count 1,
\* a live one is counted up and keeps its resetTime
Increment(h, key, t) ==
    IF key \notin DOMAIN h \/ h[key].resetTime <= t
    THEN Put(h, key, [count |-> 1, resetTime |-> t + WindowMs])
    ELSE Put(h, key, [count |-> h[key].count + 1, resetTime |-> h[key].resetTime])

\* MemoryStore.reset: this.hits.delete(key)
Reset(h, key) == [k \in DOMAIN h \ {key} |-> h[k]]

\* MemoryStore.decrement: record.count-- when a record exists with count > 0
Decrement(h, key) ==
    IF key \in DOMAIN h /\ h[key].count > 0
    THEN Put(h, key, [count |-> h[key].count - 1, resetTime |-> h[key].resetTime])
    ELSE h

\* PTTL of a key that has no expiry
NoExpiry == -1

\* the key exists on the server: a key is dropped when its expiry is reached
RedisLive(keys, key, t) ==
    IF key \notin DOMAIN keys THEN FALSE
    ELSE keys[key].resetTime = NoExpiry \/ keys[key].resetTime > t

\* INCR / DECR: the value of the key, 0 when it does not exist, plus d; the
\* key keeps the expiry it has and a key that is created has none
RedisAdd(keys, key, t, d) ==
    IF RedisLive(keys, key, t)
    THEN Put(keys, key, [count |-> keys[key].count + d, resetTime |-> keys[key].resetTime])
    ELSE Put(keys, key, [count |-> d, resetTime |-> NoExpiry])

\* PEXPIRE windowMs `if (pttl === -1)`
RedisExpire(keys, key, t) ==
    IF keys[key].resetTime = NoExpiry
    THEN Put(keys, key, [count |-> keys[key].count, resetTime |-> t + WindowMs])
    ELSE keys

\* RedisStore.increment on a connected server, run without interruption: INCR
\* and PTTL in one MULTI, and PEXPIRE windowMs when the key has no expiry yet
RedisIncrement(s, key, t) ==
    [initialized |-> TRUE, keys |-> RedisExpire(RedisAdd(s.keys, key, t, 1), key, t)]

\* RedisStore.decrement: `if (!this.initialized) return`, else DECR
RedisDecrement(s, key, t) ==
    IF ~s.initialized THEN s ELSE [s EXCEPT !.keys = RedisAdd(@, key, t, -1)]

\* RedisStore.reset: `if (!this.initialized) return`, else DEL
RedisReset(s, key) ==
    IF ~s.initialized THEN s ELSE [s EXCEPT !.keys = Reset(@, key)]

\* MemoryStore.cleanup: the periodic sweep deletes the expired records
\* a sweep that takes a record one millisecond before its window ends
SweepEarly(h, t) == [k \in {x \in DOMAIN h : h[x].resetTime > t + 1} |-> h[k]]

Sweep(h, t) == [k \in {x \in DOMAIN h : h[x].resetTime > t} |-> h[k]]

\* The windows of a key as the rate-limit contract defines them, kept apart from
\* the store: a key's first request opens a window of WindowMs; a request that
\* arrives once that window has elapsed opens the next one.  n counts the
\* requests of the key that arrived in its current window.
Arrive(w, key, t) ==
    IF key \notin DOMAIN w \/ t >= w[key].start + WindowMs
    THEN Put(w, key, [start |-> t, n |-> 1])
    ELSE Put(w, key, [start |-> w[key].start, n |-> w[key].n + 1])

\* ------------------------------------------------------- Tor detector
CACHE_TTL_MS == 21600000

\* a synchronous check that forgets the test address
IsTorExitNodeSyncCacheOnly(ip) == ip \in tor.exitNodes

\* TorDetector.isTorExitNodeSync
IsTorExitNodeSync(ip) == ip = TEST_TOR_IP \/ ip \in tor.exitNodes

\* ensureCacheLoaded: the cache is stale when it is empty or was filled
\* CACHE_TTL_MS ago or earlier
Stale == ~(now - tor.lastUpdated < CACHE_TTL_MS /\ tor.exitNodes # {})

\* a background check that refetches only while the cache is empty
TorAfterAsyncCheckColdOnly(ip) ==
    IF ip = TEST_TOR_IP \/ tor.exitNodes # {} \/ tor.loading THEN tor
    ELSE [tor EXCEPT !.loading = TRUE, !.fetches = @ + 1]

\* a fetch that starts whether or not one is in flight
FetchTorExitNodesUnguarded(t) == [t EXCEPT !.loading = TRUE, !.fetches = @ + 1]

\* fetchTorExitNodes up to its first await: `if (cache.loading) return`, else
\* loading is set and the request for the list is sent
FetchTorExitNodes(t) ==
    IF t.loading THEN t ELSE [t EXCEPT !.loading = TRUE, !.fetches = @ + 1]

\* TorDetector.isTorExitNode up to its first await: the test address returns at
\* once; a fresh cache or a fetch in flight starts nothing; otherwise
\* fetchTorExitNodes sets loading and suspends on the fetch
TorAfterAsyncCheck(ip) ==
    IF ip = TEST_TOR_IP THEN tor
    ELSE IF now - tor.lastUpdated < CACHE_TTL_MS /\ tor.exitNodes # {} THEN tor
    ELSE IF tor.loading THEN tor
    ELSE FetchTorExitNodes(tor)

\* ------------------------------------------------------- GeoIP service
\* GeoIPService.lookup(ip).country: null (here "") unless the database is loaded
\* and holds a country for the address (defaultCountry is not configured)
LookupCountry(ip) == IF geo.ready THEN DbCountry(ip) ELSE ""

\* a deny-list check that is skipped when an allow-list is configured
IsBlockedUnlessAllowList(ip, blockedCountries) ==
    IF cfg.allowedCountries # {} THEN FALSE
    ELSE IF LookupCountry(ip) = "" THEN FALSE
    ELSE LookupCountry(ip) \in blockedCountries

\* GeoIPService.isBlocked
IsBlocked(ip, blockedCountries) ==
    IF blockedCountries = {} THEN FALSE
    ELSE IF LookupCountry(ip) = "" THEN FALSE
    ELSE LookupCountry(ip) \in blockedCountries

\* GeoIPService.isAllowed
IsAllowed(ip, allowedCountries) ==
    IF allowedCountries = {} THEN TRUE
    ELSE IF LookupCountry(ip) = "" THEN FALSE
    ELSE LookupCountry(ip) \in allowedCountries

\* ------------------------------------------------------- WebhookNotifier
\* the events a notifier takes on when the configuration names none
DEFAULT_EVENTS == {"rate_limit", "blocked_ip", "tor_blocked", "geo_blocked"}

\* config.events: the default list, or a list that names every event the
\* pipeline emits
Events ==
    IF cfg.webhooks = "all" THEN DEFAULT_EVENTS \cup {"session_hijacking"}
    ELSE DEFAULT_EVENTS

\* getWebhookNotifier(config) returns a notifier when webhooks are configured
HasNotifier == cfg.webhooks # "none"

\* notify() drops a payload whose event is not enabled
Accepts(event) == HasNotifier /\ event \in Events

\* notify() and processQueue() up to its first await: the payload is queued; if
\* nothing is being sent it is taken off the queue again and its delivery starts
NotifierAfter(event) ==
    IF ~Accepts(event) THEN notifier
    ELSE IF notifier.processing THEN [notifier EXCEPT !.queue = Append(@, event)]
    ELSE [notifier EXCEPT !.processing = TRUE]

\* the request record after `if (notifier) notifier.notify({event, ...})`
Notified(rq, r, event) ==
    [rq EXCEPT ![r].notifyCalls = @ + (IF HasNotifier THEN 1 ELSE 0),
               ![r].queued = @ + (IF Accepts(event) THEN 1 ELSE 0)]

\* ------------------------------------------------------- nis2Shield
\* a callback that returns without going on
AfterSessionGuardReturns(r) == "done"

\* the callback nis2Shield hands to handleSessionGuard: rate limiting when it is
\* enabled (the store exists), else proceed()
AfterSessionGuard(r) ==
    IF HeadersSent(r) THEN "done"
    ELSE IF cfg.rlEnabled THEN "ratelimit" ELSE "proceed"


\* a nesting that runs rate limiting first and the session guard after it
AfterActiveDefenseRateFirst(r) ==
    IF HeadersSent(r) THEN "done"
    ELSE IF cfg.rlEnabled THEN "ratelimit"
    ELSE IF cfg.sgEnabled THEN "session" ELSE "proceed"

\* the callback nis2Shield hands to handleActiveDefense: the session guard when
\* it is enabled, else rate limiting, else proceed()
AfterActiveDefense(r) ==
    IF HeadersSent(r) THEN "done"
    ELSE IF cfg.sgEnabled THEN "session"
    ELSE IF cfg.rlEnabled THEN "ratelimit" ELSE "proceed"

\* blockRequest: res.status(403).json({error: 'Access Denied', message, timestamp})
BlockRequest(r, stage, message) ==
    Upd(r, [pc |-> "done", status |-> 403, code |-> message, deniedBy |-> stage,
            stages |-> Append(req[r].stages, stage)])

\* a request in flight has nothing more to happen to it: its response finished,
\* or the continuation threw, or the store never answers
Settled(r) ==
    \/ req[r].finished
    \/ req[r].pc = "done" /\ req[r].downstream = "threw"
    \/ req[r].pc = "awaiting" /\ req[r].inc = "never"

\* Respond, Finish and Forget read and write the record of their own request
\* only, so they commute with every step of every other request and of the
\* stores.  The model runs such a step before the event loop starts anything
\* else: the interleavings left out differ from the ones kept only in the order
\* of independent steps.
Local(r) ==
    \/ Settled(r)
    \/ req[r].downstream = "pending" /\ ~HeadersSent(r)
    \/ HeadersSent(r) /\ ~req[r].finished

\* the event loop is free to start a task
Idle == cur = 0 /\ \A r \in Reqs : ~Local(r)

\* the request and response objects of a settled request are released
Forget(r) ==
    /\ cur = 0
    /\ Settled(r)
    /\ req' = [req EXCEPT ![r] = NewRequest]
    /\ UNCHANGED <<cfg, notifier, now, cur, received, hits, session, tor, geo, win, allowed, redis, anon, audit, webhook,
                   file, siem, peer>>

\* the middleware function: a request for a path enters and its context is
\* initialised
ReceivePath(r, ip, ua, hasSession, path) ==
    /\ cfg.enabled
    /\ Idle
    /\ received < MaxReqs
    /\ req[r].pc = "idle"
    /\ \A q \in Reqs : q < r => req[q].pc # "idle"
    /\ req' = Upd(r, [pc |-> "static", ip |-> ip, ua |-> ua, hasSession |-> hasSession,
                      path |-> path, nis2 |-> TRUE, secHeaders |-> cfg.secHeaders])
    /\ received' = received + 1
    /\ cur' = r
    /\ UNCHANGED <<cfg, notifier, now, hits, session, tor, geo, win, allowed, redis, anon, audit, webhook,
                   file, siem, peer>>

\* a request for the root path
Receive(r, ip, ua, hasSession) == ReceivePath(r, ip, ua, hasSession, <<"/">>)

\* a disabled middleware that runs the enabled one's entry
DisabledEntersPipeline(r, ip, ua, hasSession, throws) ==
    /\ ~cfg.enabled
    /\ Idle
    /\ received < MaxReqs
    /\ req[r].pc = "idle"
    /\ \A q \in Reqs : q < r => req[q].pc # "idle"
    /\ req' = Upd(r, [pc |-> "static", ip |-> ip, ua |-> ua, hasSession |-> hasSession,
                      path |-> <<"/">>, nis2 |-> TRUE, secHeaders |-> cfg.secHeaders])
    /\ received' = received + 1
    /\ cur' = r
    /\ UNCHANGED <<cfg, notifier, now, hits, session, tor, geo, win, allowed, redis, anon, audit, webhook,
                   file, siem, peer>>

\* the handler nis2Shield returns `if (!config.enabled)`: it calls next() and
\* nothing else; next() returns or throws
DisabledMiddleware(r, ip, ua, hasSession, throws) ==
    /\ ~cfg.enabled
    /\ Idle
    /\ received < MaxReqs
    /\ req[r].pc = "idle"
    /\ \A q \in Reqs : q < r => req[q].pc # "idle"
    /\ req' = Upd(r, [pc |-> "done", ip |-> ip, ua |-> ua, hasSession |-> hasSession,
                      path |-> <<"/">>, nextCalls |-> req[r].nextCalls + 1,
                      downstream |-> IF throws THEN "threw" ELSE "pending"])
    /\ received' = received + 1
    /\ cur' = 0
    /\ UNCHANGED <<cfg, notifier, now, hits, session, tor, geo, win, allowed, redis, anon, audit, webhook,
                   file, siem, peer>>

\* a block-list check that only looks whether a list is configured
IsBlockedIPAnyList(ip) == cfg.blockedIPs # {}

\* config.blockedIPs && config.blockedIPs.includes(clientIP)
IsBlockedIP(ip) == ip \in cfg.blockedIPs

\* handleActiveDefense, 1: static block list
StaticBlock(r) ==
    /\ cur = r
    /\ req[r].pc = "static"
    /\ IF IsBlockedIP(req[r].ip)
       THEN /\ req' = Notified(BlockRequest(r, "static", "IP address is blocked"),
                               r, "blocked_ip")
            /\ notifier' = NotifierAfter("blocked_ip")
            /\ cur' = 0
       ELSE /\ req' = Upd(r, [pc |-> "tor", stages |-> Append(req[r].stages, "static")])
            /\ notifier' = notifier
            /\ cur' = r
    /\ UNCHANGED <<cfg, now, hits, session, tor, geo, received, win, allowed, redis, anon, audit, webhook,
                   file, siem, peer>>

\* handleActiveDefense, 2: Tor exit nodes, decided on the cached set; a request
\* that is not blocked triggers the asynchronous check in the background
TorBlock(r) ==
    /\ cur = r
    /\ req[r].pc = "tor"
    /\ IF cfg.blockTor /\ IsTorExitNodeSync(req[r].ip)
       THEN /\ req' = Notified(BlockRequest(r, "tor", "Tor exit nodes are not allowed"),
                               r, "tor_blocked")
            /\ notifier' = NotifierAfter("tor_blocked")
            /\ cur' = 0
            /\ tor' = tor
       ELSE /\ req' = Upd(r, [pc |-> "geo", stages |-> Append(req[r].stages, "tor")])
            /\ notifier' = notifier
            /\ cur' = r
            /\ tor' = IF cfg.blockTor THEN TorAfterAsyncCheck(req[r].ip) ELSE tor
    /\ UNCHANGED <<cfg, now, hits, session, geo, received, win, allowed, redis, anon, audit, webhook,
                   file, siem, peer>>

\* fetchTorExitNodes after its await: a successful fetch replaces the cache, a
\* failed one keeps it; loading is cleared either way
TorFetchDone(ok) ==
    /\ Idle
    /\ tor.loading
    /\ tor' = IF ok
              THEN [tor EXCEPT !.exitNodes = TorExitList, !.lastUpdated = now,
                               !.loading = FALSE, !.fetches = @ - 1, !.lastFailed = FALSE]
              ELSE [tor EXCEPT !.loading = FALSE, !.fetches = @ - 1, !.lastFailed = TRUE]
    /\ UNCHANGED <<cfg, notifier, now, cur, req, hits, session, geo, received, win, allowed, redis, anon, audit, webhook,
                   file, siem, peer>>

HasGeoBlocking == cfg.blockedCountries # {} \/ cfg.allowedCountries # {}

\* a geo stage that sends its 403 and then calls next() all the same
GeoBlockFallsThrough(r) ==
    /\ cur = r
    /\ req[r].pc = "geo"
    /\ geo' = IF HasGeoBlocking /\ ~geo.geoipInitialized
              THEN [geo EXCEPT !.pending = @ + 1]
              ELSE geo
    /\ IF HasGeoBlocking /\ geo.ready
          /\ (IsBlocked(req[r].ip, cfg.blockedCountries)
              \/ ~IsAllowed(req[r].ip, cfg.allowedCountries))
       THEN req' = Upd(r, [pc |-> IF cfg.sgEnabled THEN "session"
                                  ELSE IF cfg.rlEnabled THEN "ratelimit" ELSE "proceed",
                           status |-> 403, deniedBy |-> "geo",
                           code |-> "Access from your region is not allowed",
                           stages |-> Append(req[r].stages, "geo")])
       ELSE req' = Upd(r, [pc |-> AfterActiveDefense(r),
                           stages |-> Append(req[r].stages, "geo")])
    /\ cur' = r
    /\ UNCHANGED <<cfg, notifier, now, hits, session, tor, received, win, allowed, redis, anon, audit, webhook,
                   file, siem, peer>>

\* handleActiveDefense, 3: geo blocking, enforced only when the service is ready;
\* until the module flag is set every request with geo rules calls init()
GeoBlock(r) ==
    /\ cur = r
    /\ req[r].pc = "geo"
    /\ geo' = IF HasGeoBlocking /\ ~geo.geoipInitialized
              THEN [geo EXCEPT !.pending = @ + 1]
              ELSE geo
    /\ IF HasGeoBlocking /\ geo.ready
          /\ (IsBlocked(req[r].ip, cfg.blockedCountries)
              \/ ~IsAllowed(req[r].ip, cfg.allowedCountries))
       THEN /\ req' = Notified(BlockRequest(r, "geo",
                                            "Access from your region is not allowed"),
                               r, "geo_blocked")
            /\ notifier' = NotifierAfter("geo_blocked")
            /\ cur' = 0
       ELSE /\ req' = Upd(r, [pc |-> AfterActiveDefense(r),
                              stages |-> Append(req[r].stages, "geo")])
            /\ notifier' = notifier
            /\ cur' = r
    /\ UNCHANGED <<cfg, now, hits, session, tor, received, win, allowed, redis, anon, audit, webhook,
                   file, siem, peer>>

\* an init whose .then sets the module flag only when the database was loaded
GeoInitDoneFlagOnSuccess(ok) ==
    /\ Idle
    /\ geo.pending > 0
    /\ geo' = [ready |-> geo.ready \/ ok, geoipInitialized |-> geo.geoipInitialized \/ ok,
               pending |-> geo.pending - 1]
    /\ UNCHANGED <<cfg, notifier, now, cur, req, hits, session, tor, received, win, allowed, redis, anon, audit, webhook,
                   file, siem, peer>>

\* GeoIPService.init resolves (it never rejects): true once the database is
\* loaded, false otherwise; the .then sets the module flag
GeoInitDone(ok) ==
    /\ Idle
    /\ geo.pending > 0
    /\ geo' = [ready |-> geo.ready \/ ok, geoipInitialized |-> TRUE,
               pending |-> geo.pending - 1]
    /\ UNCHANGED <<cfg, notifier, now, cur, req, hits, session, tor, received, win, allowed, redis, anon, audit, webhook,
                   file, siem, peer>>

\* ------------------------------------------------------- sessionGuard
\* config.excludePaths of the deployment, and the paths requests ask for; a
\* path is the sequence of its characters
ExcludePaths == {<<"/", "h">>}
Paths == {<<"/", "a">>, <<"/", "h", "x">>}

\* String.prototype.startsWith
StartsWith(s, p) == Len(p) <= Len(s) /\ SubSeq(s, 1, Len(p)) = p

\* config.excludePaths.some((path) => req.path.startsWith(path))
IsExcluded(path) == \E p \in ExcludePaths : StartsWith(path, p)

\* the HMAC of `${ip}|${ua}`, a dimension that is not enforced being replaced
\* by a constant; the digest stands for the pair it was computed from
CurrentFingerprint(ip, ua) ==
    << IF cfg.enforceIpBinding THEN ip ELSE "ignored-ip",
       IF cfg.enforceUaBinding THEN ua ELSE "ignored-ua" >>

\* the values of the X-Nis2-Fingerprint header, << >> when the header is absent
ClientFingerprints ==
    {<< >>} \cup ({"5.5.5.5", "ignored-ip"} \X {"uaX", "ignored-ua"})

\* clientSideFingerprint && clientSideFingerprint !== currentFingerprint
Hijacked(ip, ua, clientFp) ==
    clientFp # << >> /\ clientFp # CurrentFingerprint(ip, ua)

\* the stand-alone sessionGuard middleware, mounted by itself: disabled,
\* excluded path and no session identifier pass; a client fingerprint that
\* differs from the current one is answered 403; else the current fingerprint
\* is attached to the request and it passes
SessionGuardMiddleware(r, ip, ua, hasSession, path, clientFp) ==
    /\ Idle
    /\ received < MaxReqs
    /\ req[r].pc = "idle"
    /\ \A q \in Reqs : q < r => req[q].pc # "idle"
    /\ received' = received + 1
    /\ cur' = 0
    /\ LET in == [req EXCEPT ![r] = [ip |-> ip, ua |-> ua, hasSession |-> hasSession,
                                     path |-> path, pc |-> "done",
                                     stages |-> <<"sessionGuard">>] @@ @]
           next(what) == [in EXCEPT ![r] = [sg |-> what, nextCalls |-> 1,
                                            downstream |-> "pending"] @@ @]
       IN  IF ~cfg.sgEnabled THEN req' = next("disabled") /\ notifier' = notifier
           ELSE IF IsExcluded(path) THEN req' = next("excluded") /\ notifier' = notifier
           ELSE IF ~hasSession THEN req' = next("nosession") /\ notifier' = notifier
           ELSE IF Hijacked(ip, ua, clientFp)
           THEN /\ req' = Notified([in EXCEPT ![r] =
                                      [sg |-> "violation", status |-> 403,
                                       code |-> "NIS2_SESSION_HIJACK",
                                       deniedBy |-> "session"] @@ @],
                                   r, "session_hijack")
                /\ notifier' = NotifierAfter("session_hijack")
           ELSE /\ req' = [next("matched") EXCEPT ![r].fp = CurrentFingerprint(ip, ua)]
                /\ notifier' = notifier
    /\ UNCHANGED <<cfg, now, hits, session, tor, geo, win, allowed, redis, anon, audit, webhook,
                   file, siem, peer>>

\* ------------------------------------------------------- handleSessionGuard
\* a comparison that looks at the address only
ViolationIpOnly(ip, ua) == cfg.enforceIpBinding /\ session.ip # ip

\* a comparison that pays no attention to which dimensions are enforced
ViolationBothAlways(ip, ua) == session.ip # ip \/ session.userAgent # ua

\* the fingerprint comparison along the enabled dimensions
Violation(ip, ua) ==
    \/ cfg.enforceIpBinding /\ session.ip # ip
    \/ cfg.enforceUaBinding /\ session.userAgent # ua

\* a fingerprint that does not keep the User-Agent it saw
FingerprintNoUa(ip, ua, t) ==
    [bound |-> TRUE, ip |-> ip, userAgent |-> "unknown", establishedAt |-> t]

\* session.nis2Fingerprint = {ip, userAgent, establishedAt: Date.now()}
Fingerprint(ip, ua, t) ==
    [bound |-> TRUE, ip |-> ip, userAgent |-> ua, establishedAt |-> t]

\* handleSessionGuard: no session passes; an unbound session is bound to the
\* request's fingerprint and passes; a bound one is compared, and on a violation
\* session.destroy is called with the callback that sends the 403
SessionGuard(r) ==
    /\ cur = r
    /\ req[r].pc = "session"
    /\ IF ~req[r].hasSession
       THEN /\ req' = Upd(r, [pc |-> AfterSessionGuard(r), sg |-> "nosession",
                              stages |-> Append(req[r].stages, "session")])
            /\ cur' = r
            /\ session' = session
       ELSE IF ~session.bound
       THEN /\ req' = Upd(r, [pc |-> AfterSessionGuard(r), sg |-> "bound",
                              stages |-> Append(req[r].stages, "session")])
            /\ cur' = r
            /\ session' = Fingerprint(req[r].ip, req[r].ua, now)
       ELSE IF Violation(req[r].ip, req[r].ua)
       THEN /\ req' = Notified(Upd(r, [pc |-> "destroying", sg |-> "violation",
                                       stages |-> Append(req[r].stages, "session")]),
                               r, "session_hijacking")
            /\ cur' = 0
            /\ session' = NoFingerprint
       ELSE /\ req' = Upd(r, [pc |-> AfterSessionGuard(r), sg |-> "matched",
                              stages |-> Append(req[r].stages, "session")])
            /\ cur' = r
            /\ session' = session
    /\ notifier' = IF req[r].hasSession /\ session.bound
                      /\ Violation(req[r].ip, req[r].ua)
                   THEN NotifierAfter("session_hijacking") ELSE notifier
    /\ UNCHANGED <<cfg, now, hits, tor, geo, received, win, allowed, redis, anon, audit, webhook,
                   file, siem, peer>>

\* the callback of session.destroy: the 403 with code NIS2_SESSION_HIJACK
DestroyCallback(r) ==
    /\ Idle
    /\ req[r].pc = "destroying"
    /\ req' = Upd(r, [pc |-> "done", status |-> 403, code |-> "NIS2_SESSION_HIJACK",
                      deniedBy |-> "session"])
    /\ UNCHANGED <<cfg, notifier, now, cur, hits, session, tor, geo, received, win, allowed, redis, anon, audit, webhook,
                   file, siem, peer>>

\* ------------------------------------------------------- handleRateLimit
\* the key of a request: keyGenerator(req) when configured, else getClientIP(req)
KeyOfClientIP(r, apiKey) == req[r].ip

KeyOf(r, apiKey) == IF cfg.useKeyGen THEN apiKey ELSE req[r].ip

\* handleRateLimit up to its await: the key is resolved and store.increment is
\* called.  The in-memory store counts at once and returns a promise resolved
\* with the key's record; the store behind the RateLimiterStore interface may
\* also reject or never settle, and then nothing was counted.  Either way the
\* await suspends the request and the task ends.
RateLimitCall(r, apiKey, outcome) ==
    /\ cur = r
    /\ req[r].pc = "ratelimit"
    /\ IF outcome = "resolve"
       THEN /\ hits' = Increment(hits, KeyOf(r, apiKey), now)
            /\ win' = Arrive(win, KeyOf(r, apiKey), now)
            /\ req' = [(IF Expired(hits, KeyOf(r, apiKey), now)
                        THEN Detach(KeyOf(r, apiKey)) ELSE req)
                       EXCEPT ![r] =
                         [pc |-> "resumed", key |-> KeyOf(r, apiKey),
                          inc |-> "resolve",
                          stages |-> Append(req[r].stages, "ratelimit"),
                          count |-> hits'[KeyOf(r, apiKey)].count,
                          resetTime |-> hits'[KeyOf(r, apiKey)].resetTime,
                          live |-> TRUE, at |-> now,
                          expired |-> Expired(hits, KeyOf(r, apiKey), now),
                          ord |-> win'[KeyOf(r, apiKey)].n,
                          wstart |-> win'[KeyOf(r, apiKey)].start] @@ @]
       ELSE /\ hits' = hits
            /\ win' = win
            /\ req' = Upd(r, [pc |-> "awaiting", key |-> KeyOf(r, apiKey),
                              inc |-> outcome,
                              stages |-> Append(req[r].stages, "ratelimit")])
    /\ cur' = 0
    /\ UNCHANGED <<cfg, notifier, now, session, tor, geo, received, allowed, redis, anon, audit, webhook,
                   file, siem, peer>>

\* const {count, resetTime} = <the awaited record>: the count is read from the
\* record when the request resumes
AwaitedCount(r) == IF req[r].live THEN hits[req[r].key].count ELSE req[r].count

\* Math.max(0, config.max - count)
Remaining(count) == IF cfg.max - count > 0 THEN cfg.max - count ELSE 0

\* a limit check that lets one request too many through
OverLimitOneLate(count) == count > cfg.max + 1

\* Math.ceil(resetTime / 1000)
ResetHeader(resetTime) == (resetTime + 999) \div 1000

\* the limit check: count > config.max
OverLimit(count) == count > cfg.max

\* handleRateLimit resumed after the await resolved: the headers, then the 429
\* when the count exceeds max, else next()
RateLimitDecide(r) ==
    /\ Idle
    /\ req[r].pc = "resumed"
    /\ IF OverLimit(AwaitedCount(r))
       THEN /\ req' = Upd(r, [pc |-> "done", count |-> AwaitedCount(r), live |-> FALSE,
                              limit |-> cfg.max,
                              remaining |-> Remaining(AwaitedCount(r)),
                              reset |-> ResetHeader(req[r].resetTime),
                              rateLimited |-> TRUE, status |-> 429,
                              code |-> "Too Many Requests", deniedBy |-> "ratelimit"])
            /\ cur' = 0
       ELSE /\ req' = Upd(r, [pc |-> "proceed", count |-> AwaitedCount(r), live |-> FALSE,
                              limit |-> cfg.max,
                              remaining |-> Remaining(AwaitedCount(r)),
                              reset |-> ResetHeader(req[r].resetTime),
                              via |-> "try"])
            /\ cur' = r
    /\ allowed' = IF OverLimit(AwaitedCount(r)) THEN allowed
                  ELSE allowed \cup {[key |-> req[r].key, wstart |-> req[r].wstart,
                                      ord |-> req[r].ord, at |-> req[r].at]}
    /\ UNCHANGED <<cfg, notifier, now, hits, session, tor, geo, received, win, redis, anon, audit, webhook,
                   file, siem, peer>>

\* handleRateLimit's catch block: reached when the awaited increment rejects or
\* when anything in the try block throws, next() included; it calls next()
RateLimitCatch(r) ==
    /\ \/ Idle /\ req[r].pc = "awaiting" /\ req[r].inc = "reject"
       \/ cur = r /\ req[r].pc = "caught"
    /\ req' = Upd(r, [pc |-> "proceed", via |-> "catch"])
    /\ cur' = r
    /\ UNCHANGED <<cfg, notifier, now, hits, session, tor, geo, received, win, allowed, redis, anon, audit, webhook,
                   file, siem, peer>>

\* ------------------------------------------------------- proceed and after
\* The continuation nis2Shield hands to the last stage.  After handleRateLimit
\* it is guarded by `if (rlErr || res.headersSent) return`.  proceed() registers
\* the audit listener on 'finish' when logging is enabled and calls next().
\* next() is opaque: it returns, or it throws before any response was sent.  A
\* throw inside handleRateLimit's try block lands in its catch block; any other
\* throw leaves the pipeline.
Proceed(r, throws) ==
    /\ cur = r
    /\ req[r].pc = "proceed"
    /\ IF req[r].via \in {"try", "catch"} /\ HeadersSent(r)
       THEN /\ req' = Upd(r, [pc |-> "done"])
            /\ cur' = 0
       ELSE IF throws /\ req[r].via = "try"
       THEN /\ req' = Upd(r, [pc |-> "caught",
                              listeners |-> req[r].listeners + (IF cfg.logging THEN 1 ELSE 0),
                              nextCalls |-> req[r].nextCalls + 1])
            /\ cur' = r
       ELSE /\ req' = Upd(r, [pc |-> "done",
                              listeners |-> req[r].listeners + (IF cfg.logging THEN 1 ELSE 0),
                              nextCalls |-> req[r].nextCalls + 1,
                              downstream |-> IF throws THEN "threw" ELSE "pending"])
            /\ cur' = 0
    /\ UNCHANGED <<cfg, notifier, now, hits, session, tor, geo, received, win, allowed, redis, anon, audit, webhook,
                   file, siem, peer>>

\* the downstream handler answers the request it was given
Respond(r) ==
    /\ cur = 0
    /\ req[r].downstream = "pending"
    /\ ~HeadersSent(r)
    /\ req' = Upd(r, [status |-> 200, downstream |-> "responded"])
    /\ UNCHANGED <<cfg, notifier, now, cur, hits, session, tor, geo, received, win, allowed, redis, anon, audit, webhook,
                   file, siem, peer>>

\* the response's 'finish' event: every registered listener runs handleAuditing
Finish(r) ==
    /\ cur = 0
    /\ HeadersSent(r)
    /\ ~req[r].finished
    /\ req' = Upd(r, [finished |-> TRUE, audits |-> req[r].audits + req[r].listeners])
    /\ UNCHANGED <<cfg, notifier, now, cur, hits, session, tor, geo, received, win, allowed, redis, anon, audit, webhook,
                   file, siem, peer>>

\* time passes between tasks
Tick ==
    /\ Idle
    /\ now < MaxTime
    /\ now' = now + 1
    /\ UNCHANGED <<cfg, notifier, cur, req, hits, session, tor, geo, received, win, allowed, redis, anon, audit, webhook,
                   file, siem, peer>>

\* the store's cleanup timer; a timer does not fire between the resolution of a
\* promise and the continuation that awaits it
Cleanup ==
    /\ Idle
    /\ \A r \in Reqs : req[r].pc # "resumed"
    /\ hits' = Sweep(hits, now)
    /\ UNCHANGED <<cfg, notifier, now, cur, req, session, tor, geo, received, win, allowed, redis, anon, audit, webhook,
                   file, siem, peer>>

\* processQueue() after `await sendWithRetry(payload)` returned, delivered or
\* given up: the next payload is taken, or processing ends
SendDone ==
    /\ Idle
    /\ notifier.processing
    /\ notifier' = IF notifier.queue # << >>
                   THEN [notifier EXCEPT !.queue = Tail(@)]
                   ELSE [notifier EXCEPT !.processing = FALSE]
    /\ UNCHANGED <<cfg, now, cur, req, hits, session, tor, geo, received, win, allowed, redis, anon, audit, webhook,
                   file, siem, peer>>

Next ==
    \/ \E r \in Reqs, ip \in IPs, ua \in UAs, hasSession \in BOOLEAN :
          Receive(r, ip, ua, hasSession)
    \/ \E r \in Reqs, ip \in IPs, ua \in UAs, hasSession \in BOOLEAN, throws \in BOOLEAN :
          DisabledMiddleware(r, ip, ua, hasSession, throws)
    \/ \E r \in Reqs : StaticBlock(r)
    \/ \E r \in Reqs : TorBlock(r)
    \/ \E ok \in BOOLEAN : TorFetchDone(ok)
    \/ \E r \in Reqs : GeoBlock(r)
    \/ \E ok \in BOOLEAN : GeoInitDone(ok)
    \/ \E r \in Reqs : SessionGuard(r)
    \/ \E r \in Reqs : DestroyCallback(r)
    \/ \E r \in Reqs, apiKey \in ApiKeys, outcome \in {"resolve", "reject", "never"} :
          RateLimitCall(r, apiKey, outcome)
    \/ \E r \in Reqs : RateLimitDecide(r)
    \/ \E r \in Reqs : RateLimitCatch(r)
    \/ \E r \in Reqs, throws \in BOOLEAN : Proceed(r, throws)
    \/ \E r \in Reqs : Respond(r)
    \/ \E r \in Reqs : Finish(r)
    \/ \E r \in Reqs : Forget(r)
    \/ Tick
    \/ Cleanup
    \/ SendDone

Spec == Init /\ [][Next]_vars

\* ------------------------------------------------------- the rate-limit stage
\* Spec restricted to the pipeline in which only rate limiting acts (no block
\* rule hit, no session guard), over the MemoryStore nis2Shield builds, whose
\* increment always resolves, with a continuation that returns, with the clock
\* and the store's sweep.
RateIPs == {"5.5.5.5", "7.7.7.7"}

InitRate ==
    /\ Init
    /\ cfg.enabled /\ cfg.secHeaders
    /\ cfg.rlEnabled /\ cfg.logging /\ ~cfg.useKeyGen /\ cfg.webhooks = "none"
    /\ cfg.blockedIPs = {"1.2.3.4"}
    /\ ~cfg.sgEnabled /\ ~cfg.enforceIpBinding /\ ~cfg.enforceUaBinding
    /\ ~cfg.blockTor /\ cfg.blockedCountries = {} /\ cfg.allowedCountries = {}

NextRate ==
    \/ \E r \in Reqs, ip \in RateIPs : Receive(r, ip, "uaX", FALSE)
    \/ \E r \in Reqs : StaticBlock(r)
    \/ \E r \in Reqs : TorBlock(r)
    \/ \E r \in Reqs : GeoBlock(r)
    \/ \E r \in Reqs, apiKey \in ApiKeys : RateLimitCall(r, apiKey, "resolve")
    \/ \E r \in Reqs : RateLimitDecide(r)
    \/ \E r \in Reqs : Proceed(r, FALSE)
    \/ \E r \in Reqs : Respond(r)
    \/ \E r \in Reqs : Finish(r)
    \/ \E r \in Reqs : Forget(r)
    \/ Tick
    \/ Cleanup

SpecRate == InitRate /\ [][NextRate]_vars

\* the rate-limit stage of request r has taken its decision on a counted request
Decided(r) == req[r].inc = "resolve" /\ req[r].pc # "resumed"

\* C1: when no more than max requests of a key have arrived in its current
\* window, each of them is passed to the continuation (never answered 429) and
\* the k-th of them carries X-RateLimit-Remaining = max - k.
C1_WithinQuotaAllowed ==
    \A r \in Reqs :
        /\ Decided(r)
        /\ win[req[r].key].start = req[r].wstart
        /\ win[req[r].key].n <= cfg.max
        => /\ req[r].remaining = cfg.max - req[r].ord
           /\ req[r].status # 429
           /\ req[r].deniedBy = ""
           /\ req[r].pc = "proceed" \/ req[r].nextCalls >= 1

C3_ExpiredWindowResets ==
    /\ [][\A r \in Reqs :
            /\ req[r].pc = "ratelimit" /\ req'[r].pc = "resumed"
            /\ req'[r].key \in DOMAIN hits
            /\ now >= hits[req'[r].key].resetTime
            => hits'[req'[r].key] = [count |-> 1, resetTime |-> now + WindowMs]]_vars
    /\ [](\A r \in Reqs :
            Decided(r) /\ req[r].expired
            => /\ req[r].status # 429
               /\ req[r].pc = "proceed" \/ req[r].nextCalls >= 1)

\* ------------------------------------------------------- a store that fails
\* handleRateLimit over any store behind the RateLimiterStore interface: its
\* increment resolves, rejects or never settles, and the continuation returns
\* or throws; keys come from the address or from keyGenerator.  The clock
\* stands still.
InitFault ==
    /\ Init
    /\ cfg.enabled /\ cfg.secHeaders
    /\ cfg.rlEnabled /\ cfg.logging /\ cfg.max = 1 /\ cfg.webhooks = "none"
    /\ cfg.blockedIPs = {"1.2.3.4"}
    /\ ~cfg.sgEnabled /\ ~cfg.enforceIpBinding /\ ~cfg.enforceUaBinding
    /\ ~cfg.blockTor /\ cfg.blockedCountries = {} /\ cfg.allowedCountries = {}

NextFault ==
    \/ \E r \in Reqs, ip \in RateIPs : Receive(r, ip, "uaX", FALSE)
    \/ \E r \in Reqs : StaticBlock(r)
    \/ \E r \in Reqs : TorBlock(r)
    \/ \E r \in Reqs : GeoBlock(r)
    \/ \E r \in Reqs, apiKey \in ApiKeys, outcome \in {"resolve", "reject", "never"} :
          RateLimitCall(r, apiKey, outcome)
    \/ \E r \in Reqs : RateLimitDecide(r)
    \/ \E r \in Reqs : RateLimitCatch(r)
    \/ \E r \in Reqs, throws \in BOOLEAN : Proceed(r, throws)
    \/ \E r \in Reqs : Respond(r)
    \/ \E r \in Reqs : Finish(r)
    \/ \E r \in Reqs : Forget(r)

SpecFault == InitFault /\ [][NextFault]_vars

\* C4: when the store's increment rejects or never answers, the rate-limit
\* stage fails open: once nothing more happens to the request its continuation
\* was invoked exactly once and the stage produced no response.
C4_FailsOpenOnStoreFault ==
    \A r \in Reqs :
        req[r].inc = "never" \/ (req[r].inc = "reject" /\ req[r].pc = "done")
        => req[r].nextCalls = 1 /\ req[r].deniedBy = ""

\* ------------------------------------------------------- the whole pipeline
\* Spec restricted to the configurations with every active-defense rule set
\* (block list, Tor, a country deny-list), max = 1 and the default key, with
\* the session guard, rate limiting and logging each on or off, over the
\* MemoryStore nis2Shield builds, with a continuation that may throw.  The clock
\* stands still and no fetch or database load completes during the behaviour:
\* it starts either cold or with the Tor list fetched and the GeoIP database
\* loaded (warmTorCache and initGeoIP at start-up, or an earlier request).
InitPipe ==
    /\ cfg \in Configs
    /\ cfg.enabled /\ cfg.secHeaders
    /\ cfg.max = 1 /\ ~cfg.useKeyGen /\ cfg.webhooks = "none"
    /\ cfg.blockedIPs = {"1.2.3.4"}
    /\ cfg.blockTor /\ cfg.blockedCountries = {"RU"} /\ cfg.allowedCountries = {}
    /\ cfg.enforceIpBinding /\ cfg.enforceUaBinding
    /\ now = 0
    /\ cur = 0
    /\ req = [r \in Reqs |-> NewRequest]
    /\ received = 0
    /\ hits = << >>
    /\ session = NoFingerprint
    /\ tor \in {[exitNodes |-> {}, lastUpdated |-> 0, loading |-> FALSE,
                 fetches |-> 0, lastFailed |-> FALSE],
                [exitNodes |-> TorExitList, lastUpdated |-> 0, loading |-> FALSE,
                 fetches |-> 0, lastFailed |-> FALSE]}
    /\ geo \in {[ready |-> FALSE, geoipInitialized |-> FALSE, pending |-> 0],
                [ready |-> TRUE, geoipInitialized |-> TRUE, pending |-> 0]}
    /\ notifier = [queue |-> << >>, processing |-> FALSE]
    /\ win = << >>
    /\ allowed = {}
    /\ redis = [initialized |-> FALSE, keys |-> << >>]
    /\ anon = NoAddress
    /\ audit = NoAudit
    /\ webhook = NewWebhook(DEFAULT_RETRIES)
    /\ file = NewFileTransport(DEFAULT_MAX_FILES, MaxSize)
    /\ siem = NewOutputs("console", FALSE, FALSE, FALSE, {})
    /\ peer = NewPeer

NextPipe ==
    \/ \E r \in Reqs, ip \in IPs, hasSession \in BOOLEAN :
          Receive(r, ip, "uaX", hasSession)
    \/ \E r \in Reqs : StaticBlock(r)
    \/ \E r \in Reqs : TorBlock(r)
    \/ \E r \in Reqs : GeoBlock(r)
    \/ \E r \in Reqs : SessionGuard(r)
    \/ \E r \in Reqs : DestroyCallback(r)
    \/ \E r \in Reqs, apiKey \in ApiKeys : RateLimitCall(r, apiKey, "resolve")
    \/ \E r \in Reqs : RateLimitDecide(r)
    \/ \E r \in Reqs : RateLimitCatch(r)
    \/ \E r \in Reqs, throws \in BOOLEAN : Proceed(r, throws)
    \/ \E r \in Reqs : Respond(r)
    \/ \E r \in Reqs : Finish(r)
    \/ \E r \in Reqs : Forget(r)

SpecPipe == InitPipe /\ [][NextPipe]_vars

\* C5: the continuation of a request is invoked exactly once when every stage
\* allowed it and never when a stage denied it, also when the continuation
\* throws: never twice, never after a deny response.
C5_ContinuationExactlyOnce ==
    \A r \in Reqs :
        /\ req[r].nextCalls <= 1
        /\ req[r].deniedBy # "" => req[r].nextCalls = 0
        /\ req[r].pc = "done" /\ req[r].deniedBy = "" => req[r].nextCalls = 1

\* C6: a request denied by the static block list, the Tor block or the geo
\* block has not incremented a rate-limit counter, has not had its session
\* fingerprint recorded or compared and has not reached the continuation, and
\* the step that denies it leaves the store and the session as they are.
C6_EarlyDenyShortCircuits ==
    /\ [](\A r \in Reqs :
            req[r].deniedBy \in {"static", "tor", "geo"}
            => /\ req[r].inc = "none" /\ req[r].key = ""
               /\ req[r].sg = "none"
               /\ req[r].nextCalls = 0 /\ req[r].downstream = "none"
               /\ req[r].status = 403)
    /\ [][\A r \in Reqs :
            req'[r].deniedBy \in {"static", "tor", "geo"} /\ req'[r] # req[r]
            => hits' = hits /\ win' = win /\ session' = session]_vars

\* a geo-blocked request finished with its 403 while a counter and a bound
\* session exist that it left alone
C6_Witness ==
    \E r \in Reqs :
        /\ req[r].deniedBy = "geo" /\ req[r].finished /\ req[r].hasSession
        /\ cfg.rlEnabled /\ cfg.sgEnabled
        /\ req[r].ip \notin DOMAIN hits /\ hits # << >>
        /\ session.bound /\ session.ip # req[r].ip

\* C7: with logging enabled the audit emitter has run exactly once for every
\* request whose response has finished, allowed or denied.
C7_AuditedExactlyOnce ==
    \A r \in Reqs : cfg.logging /\ req[r].finished => req[r].audits = 1

\* the order of the stages as the pipeline runs them: the session check comes
\* before rate limiting
StageOrder ==
    <<"static", "tor", "geo">>
        \o (IF cfg.sgEnabled THEN <<"session">> ELSE << >>)
        \o (IF cfg.rlEnabled THEN <<"ratelimit">> ELSE << >>)

\* the order the claim states: rate limiting before the session check
ClaimedStageOrder ==
    <<"static", "tor", "geo">>
        \o (IF cfg.rlEnabled THEN <<"ratelimit">> ELSE << >>)
        \o (IF cfg.sgEnabled THEN <<"session">> ELSE << >>)

IsPrefix(s, t) == Len(s) <= Len(t) /\ \A i \in 1..Len(s) : s[i] = t[i]

SessionIPs == {"5.5.5.5", "7.7.7.7"}

InitSession ==
    /\ Init
    /\ cfg.enabled /\ cfg.secHeaders
    /\ cfg.sgEnabled /\ ~cfg.rlEnabled /\ cfg.max = 1 /\ ~cfg.useKeyGen
    /\ cfg.logging /\ ~cfg.blockTor /\ cfg.webhooks = "none"
    /\ cfg.blockedIPs = {"1.2.3.4"}
    /\ cfg.blockedCountries = {} /\ cfg.allowedCountries = {}

NextSession ==
    \/ \E r \in Reqs, ip \in SessionIPs, ua \in UAs, hasSession \in BOOLEAN :
          Receive(r, ip, ua, hasSession)
    \/ \E r \in Reqs : StaticBlock(r)
    \/ \E r \in Reqs : TorBlock(r)
    \/ \E r \in Reqs : GeoBlock(r)
    \/ \E r \in Reqs : SessionGuard(r)
    \/ \E r \in Reqs : DestroyCallback(r)
    \/ \E r \in Reqs, throws \in BOOLEAN : Proceed(r, throws)
    \/ \E r \in Reqs : Respond(r)
    \/ \E r \in Reqs : Finish(r)
    \/ \E r \in Reqs : Forget(r)
    \/ Tick

SpecSession == InitSession /\ [][NextSession]_vars

\* request r is at the session guard, on a session, and its address or its
\* User-Agent differs from the bound fingerprint in a dimension that is enforced
Drifted(r) ==
    /\ cur = r /\ req[r].pc = "session" /\ req[r].hasSession /\ session.bound
    /\ \/ cfg.enforceIpBinding /\ req[r].ip # session.ip
       \/ cfg.enforceUaBinding /\ req[r].ua # session.userAgent

C10_FirstRequestBinds ==
    /\ [][\A r \in Reqs :
            cur = r /\ req[r].pc = "session" /\ req[r].hasSession /\ ~session.bound
            => /\ session' = [bound |-> TRUE, ip |-> req[r].ip,
                              userAgent |-> req[r].ua, establishedAt |-> now]
               /\ req'[r].sg = "bound" /\ req'[r].pc = "proceed"]_vars
    /\ [](\A r \in Reqs :
            req[r].sg = "bound"
            => /\ req[r].deniedBy = "" /\ req[r].status # 403
               /\ req[r].pc = "proceed" \/ req[r].nextCalls >= 1)

\* a session was bound after the clock had moved and its request went through
C10_Witness ==
    \E r \in Reqs :
        /\ req[r].sg = "bound" /\ req[r].status = 200 /\ req[r].nextCalls = 1
        /\ session = [bound |-> TRUE, ip |-> req[r].ip, userAgent |-> req[r].ua,
                      establishedAt |-> now]
        /\ now > 0

\* ------------------------------------------------------- notifications
\* Spec restricted to the pipeline with a webhook notifier configured, with the
\* default event list or with a list naming every event, every stage able to
\* deny (Tor list fetched, GeoIP database loaded, max = 1, both bindings
\* enforced) and a continuation that returns.  The clock stands still.
InitNotify ==
    /\ cfg \in Configs
    /\ cfg.enabled /\ cfg.secHeaders
    /\ cfg.webhooks # "none" /\ cfg.blockedIPs = {"1.2.3.4"}
    /\ cfg.rlEnabled /\ cfg.sgEnabled /\ cfg.max = 1 /\ ~cfg.useKeyGen
    /\ cfg.enforceIpBinding /\ cfg.enforceUaBinding /\ ~cfg.logging
    /\ cfg.blockTor /\ cfg.blockedCountries = {"RU"} /\ cfg.allowedCountries = {}
    /\ now = 0
    /\ cur = 0
    /\ req = [r \in Reqs |-> NewRequest]
    /\ received = 0
    /\ hits = << >>
    /\ session = NoFingerprint
    /\ tor = [exitNodes |-> TorExitList, lastUpdated |-> 0, loading |-> FALSE,
                 fetches |-> 0, lastFailed |-> FALSE]
    /\ geo = [ready |-> TRUE, geoipInitialized |-> TRUE, pending |-> 0]
    /\ notifier = [queue |-> << >>, processing |-> FALSE]
    /\ win = << >>
    /\ allowed = {}
    /\ redis = [initialized |-> FALSE, keys |-> << >>]
    /\ anon = NoAddress
    /\ audit = NoAudit
    /\ webhook = NewWebhook(DEFAULT_RETRIES)
    /\ file = NewFileTransport(DEFAULT_MAX_FILES, MaxSize)
    /\ siem = NewOutputs("console", FALSE, FALSE, FALSE, {})
    /\ peer = NewPeer

NextNotify ==
    \/ \E r \in Reqs, ip \in IPs, ua \in UAs, hasSession \in BOOLEAN :
          Receive(r, ip, ua, hasSession)
    \/ \E r \in Reqs : StaticBlock(r)
    \/ \E r \in Reqs : TorBlock(r)
    \/ \E r \in Reqs : GeoBlock(r)
    \/ \E r \in Reqs : SessionGuard(r)
    \/ \E r \in Reqs : DestroyCallback(r)
    \/ \E r \in Reqs, apiKey \in ApiKeys : RateLimitCall(r, apiKey, "resolve")
    \/ \E r \in Reqs : RateLimitDecide(r)
    \/ \E r \in Reqs : Proceed(r, FALSE)
    \/ \E r \in Reqs : Respond(r)
    \/ \E r \in Reqs : Finish(r)
    \/ \E r \in Reqs : Forget(r)
    \/ SendDone

SpecNotify == InitNotify /\ [][NextNotify]_vars

\* C11: with a notifier configured, a request denied by any stage (static
\* block, Tor, geo, rate limit 429, session violation) has had exactly one
\* notification handed to the notifier and taken on by it.
C11_EveryDenyNotified ==
    \A r \in Reqs :
        HasNotifier /\ (req[r].deniedBy # "" \/ req[r].sg = "violation")
        => req[r].notifyCalls = 1 /\ req[r].queued = 1

\* ------------------------------------------------------- active defense
\* Spec restricted to the pipeline in which only handleActiveDefense can deny
\* (no session guard, no rate limiting), over every block list, Tor and geo
\* configuration, starting cold: the Tor list is fetched and the GeoIP
\* database is loaded, or fails to, while requests arrive.
InitDefense ==
    /\ Init
    /\ cfg.enabled /\ cfg.secHeaders
    /\ ~cfg.rlEnabled /\ cfg.max = 1 /\ ~cfg.useKeyGen
    /\ ~cfg.sgEnabled /\ ~cfg.enforceIpBinding /\ ~cfg.enforceUaBinding
    /\ ~cfg.logging /\ cfg.webhooks = "none"

NextDefense ==
    \/ \E r \in Reqs, ip \in IPs : Receive(r, ip, "uaX", FALSE)
    \/ \E r \in Reqs : StaticBlock(r)
    \/ \E r \in Reqs : TorBlock(r)
    \/ \E ok \in BOOLEAN : TorFetchDone(ok)
    \/ \E r \in Reqs : GeoBlock(r)
    \/ \E ok \in BOOLEAN : GeoInitDone(ok)
    \/ \E r \in Reqs : Proceed(r, FALSE)
    \/ \E r \in Reqs : Respond(r)
    \/ \E r \in Reqs : Finish(r)
    \/ \E r \in Reqs : Forget(r)

SpecDefense == InitDefense /\ [][NextDefense]_vars

\* C12: the static block stage denies a request, with 403 and the message
\* 'IP address is blocked', exactly when its client IP is in blockedIPs; a
\* request from an IP outside the list leaves the stage undenied.
C12_StaticBlockIffListed ==
    /\ [][\A r \in Reqs :
            cur = r /\ req[r].pc = "static"
            => IF req[r].ip \in cfg.blockedIPs
               THEN /\ req'[r].deniedBy = "static" /\ req'[r].status = 403
                    /\ req'[r].code = "IP address is blocked"
               ELSE req'[r].deniedBy = "" /\ req'[r].status = 0]_vars
    /\ [](\A r \in Reqs :
            req[r].deniedBy = "static"
            <=> req[r].ip \in cfg.blockedIPs /\ req[r].pc \notin {"idle", "static"})

\* with two addresses on the list, a request from the second one got the 403
\* of the static stage after earlier requests had been handled
C12_Witness ==
    /\ cfg.blockedIPs = {"1.2.3.4", "7.7.7.7"}
    /\ received > 1
    /\ \E r \in Reqs : /\ req[r].ip = "7.7.7.7" /\ req[r].deniedBy = "static"
                         /\ req[r].status = 403 /\ req[r].finished

\* C13: with the GeoIP service ready, a request whose address has a country is
\* denied by the geo stage exactly when a deny-list is configured and holds
\* the country, or an allow-list is configured and does not hold it; either
\* list alone denies.
C13_GeoDenyIffListsSay ==
    /\ [][\A r \in Reqs :
            cur = r /\ req[r].pc = "geo" /\ geo.ready /\ DbCountry(req[r].ip) # ""
            => (req'[r].deniedBy = "geo" /\ req'[r].status = 403
                <=> \/ /\ cfg.blockedCountries # {}
                       /\ DbCountry(req[r].ip) \in cfg.blockedCountries
                    \/ /\ cfg.allowedCountries # {}
                       /\ DbCountry(req[r].ip) \notin cfg.allowedCountries)]_vars
    /\ [](\A r \in Reqs :
            req[r].deniedBy = "geo" /\ DbCountry(req[r].ip) # ""
            => \/ DbCountry(req[r].ip) \in cfg.blockedCountries
               \/ /\ cfg.allowedCountries # {}
                  /\ DbCountry(req[r].ip) \notin cfg.allowedCountries)

\* with both lists configured, a request from a country on both lists was denied
C13_Witness ==
    \E r \in Reqs :
        /\ cfg.blockedCountries = {"RU"} /\ cfg.allowedCountries = {"IT", "RU"}
        /\ DbCountry(req[r].ip) = "RU"
        /\ req[r].deniedBy = "geo" /\ req[r].finished

\* C14: the geo stage never denies on a lookup failure: a request that reaches
\* it while the service is not ready, or whose address has no country in the
\* database, passes the stage, under a deny-list and under an allow-list.
C14_GeoPassesOnLookupFailure ==
    [][\A r \in Reqs :
          cur = r /\ req[r].pc = "geo" /\ (~geo.ready \/ DbCountry(req[r].ip) = "")
          => req'[r].deniedBy = "" /\ req'[r].status = 0]_vars

\* ------------------------------------------------------- the Tor stage
\* Spec restricted to the pipeline with blockTor on and nothing else after the
\* static block list, starting with the exit-node cache cold, filled a moment
\* ago, or filled CACHE_TTL_MS ago with a list that has changed since; fetches
\* complete, or fail, while requests arrive.
InitTor ==
    /\ cfg \in Configs
    /\ cfg.enabled /\ cfg.secHeaders
    /\ cfg.blockTor /\ cfg.blockedIPs = {"1.2.3.4"}
    /\ cfg.blockedCountries = {} /\ cfg.allowedCountries = {}
    /\ ~cfg.rlEnabled /\ cfg.max = 1 /\ ~cfg.useKeyGen
    /\ ~cfg.sgEnabled /\ ~cfg.enforceIpBinding /\ ~cfg.enforceUaBinding
    /\ ~cfg.logging /\ cfg.webhooks = "none"
    /\ now = 0
    /\ cur = 0
    /\ req = [r \in Reqs |-> NewRequest]
    /\ received = 0
    /\ hits = << >>
    /\ session = NoFingerprint
    /\ tor \in {[exitNodes |-> {}, lastUpdated |-> 0, loading |-> FALSE,
                 fetches |-> 0, lastFailed |-> FALSE],
                [exitNodes |-> TorExitList, lastUpdated |-> 0, loading |-> FALSE,
                 fetches |-> 0, lastFailed |-> FALSE],
                [exitNodes |-> OldExitList, lastUpdated |-> 0 - CACHE_TTL_MS,
                 loading |-> FALSE,
                 fetches |-> 0, lastFailed |-> FALSE]}
    /\ geo = [ready |-> FALSE, geoipInitialized |-> FALSE, pending |-> 0]
    /\ notifier = [queue |-> << >>, processing |-> FALSE]
    /\ win = << >>
    /\ allowed = {}
    /\ redis = [initialized |-> FALSE, keys |-> << >>]
    /\ anon = NoAddress
    /\ audit = NoAudit
    /\ webhook = NewWebhook(DEFAULT_RETRIES)
    /\ file = NewFileTransport(DEFAULT_MAX_FILES, MaxSize)
    /\ siem = NewOutputs("console", FALSE, FALSE, FALSE, {})
    /\ peer = NewPeer

NextTor ==
    \/ \E r \in Reqs, ip \in IPs : Receive(r, ip, "uaX", FALSE)
    \/ \E r \in Reqs : StaticBlock(r)
    \/ \E r \in Reqs : TorBlock(r)
    \/ \E ok \in BOOLEAN : TorFetchDone(ok)
    \/ \E r \in Reqs : GeoBlock(r)
    \/ \E r \in Reqs : Proceed(r, FALSE)
    \/ \E r \in Reqs : Respond(r)
    \/ \E r \in Reqs : Finish(r)
    \/ \E r \in Reqs : Forget(r)
    \/ Tick

SpecTor == InitTor /\ [][NextTor]_vars

\* C15: with blockTor on, the Tor stage decides in the request's own task on
\* the set cached at that moment: 403 exactly when the address is in the
\* cached set or is 6.6.6.6; a request that is not denied goes on to the geo
\* stage in the same task, whether or not a fetch is in flight.
C15_TorDecidedOnCachedSet ==
    /\ [][\A r \in Reqs :
            cur = r /\ req[r].pc = "tor" /\ cfg.blockTor
            => IF req[r].ip \in tor.exitNodes \/ req[r].ip = "6.6.6.6"
               THEN req'[r].deniedBy = "tor" /\ req'[r].status = 403
               ELSE /\ req'[r].deniedBy = "" /\ req'[r].status = 0
                    /\ req'[r].pc = "geo" /\ cur' = r]_vars
    /\ [](\A r \in Reqs : req[r].pc = "tor" => cur = r)

\* while a refresh of the aged cache was in flight, a request from an address
\* the cache does not hold yet was answered by the downstream handler
C15_Witness ==
    /\ tor.loading /\ tor.exitNodes = OldExitList
    /\ \E r \in Reqs : /\ req[r].ip = "7.7.7.7" /\ req[r].nextCalls = 1
                         /\ req[r].status = 200

\* C16 as stated: every request that finds the cache stale while no fetch is
\* in flight starts a refresh, and a request from an address of the cached
\* list is denied.
C16_EveryStaleRequestRefreshes ==
    [][\A r \in Reqs :
          cur = r /\ req[r].pc = "tor" /\ cfg.blockTor
          => /\ Stale /\ ~tor.loading => tor'.loading
             /\ req[r].ip \in tor.exitNodes => req'[r].deniedBy = "tor"]_vars

\* C16, amended: every request that the synchronous check lets through and
\* that finds the cache stale while no fetch is in flight starts a refresh; a
\* request the synchronous check denies starts none; a successful fetch puts
\* the fetched list in the cache, and from then on a request from an address
\* of the cached list is denied.
C16_PassingStaleRequestRefreshes ==
    [][/\ \A r \in Reqs :
            cur = r /\ req[r].pc = "tor" /\ cfg.blockTor
            => /\ Stale /\ ~tor.loading /\ req'[r].deniedBy = "" => tor'.loading
               /\ req'[r].deniedBy = "tor" => tor' = tor
               /\ req[r].ip \in tor.exitNodes => req'[r].deniedBy = "tor"
       /\ tor.loading /\ ~tor'.loading
          => \/ tor'.exitNodes = tor.exitNodes /\ tor'.lastUpdated = tor.lastUpdated
             \/ tor'.exitNodes = TorExitList /\ tor'.lastUpdated = now]_vars

\* a request that found the cache cold started the fetch, the fetch succeeded,
\* and a later request from an address of the fetched list was denied
C16_Witness ==
    /\ tor.exitNodes = TorExitList /\ ~tor.loading /\ tor.lastUpdated > 0
    /\ \E r \in Reqs : req[r].ip = "7.7.7.7" /\ req[r].deniedBy = "tor"
                         /\ req[r].finished

\* the rate-limit stage has finished with request r: it denied it or handed
\* it to the continuation
StageLeft(r) == req[r].inc # "none" /\ req[r].pc \in {"proceed", "done"}

\* C17: a request that went through the rate-limit stage carries the three
\* headers: limit = max, remaining = max - count floored at 0 and reset = the
\* epoch seconds of the window's end, when it was allowed, when it was denied
\* and when the store failed and the stage let it through.
C17_HeadersAlwaysSet ==
    \A r \in Reqs :
        StageLeft(r)
        => /\ req[r].limit = cfg.max
           /\ req[r].remaining >= 0
           /\ req[r].inc = "resolve"
              => /\ req[r].remaining
                      = (IF cfg.max > req[r].count THEN cfg.max - req[r].count ELSE 0)
                 /\ req[r].reset * 1000 >= req[r].resetTime
                 /\ (req[r].reset - 1) * 1000 < req[r].resetTime

\* the requests of a key the rate-limit stage let through, by the window they
\* were counted in and by the Date.now() of their increment
AllowedInWindow(key, w) ==
    Cardinality({a \in allowed : a.key = key /\ a.wstart = w})

AllowedBetween(key, lo, hi) ==
    Cardinality({a \in allowed : a.key = key /\ lo <= a.at /\ a.at <= hi})

StoreKeys == RateIPs

StoreMayCount(h, key) ==
    IF key \notin DOMAIN h THEN TRUE
    ELSE IF h[key].resetTime <= now THEN TRUE ELSE h[key].count < MaxCount

\* store.increment(key) on the MemoryStore
StoreIncrement(key) ==
    /\ Idle
    /\ StoreMayCount(hits, key)
    /\ hits' = Increment(hits, key, now)
    /\ win' = Arrive(win, key, now)
    /\ req' = IF Expired(hits, key, now) THEN Detach(key) ELSE req
    /\ UNCHANGED <<cfg, notifier, now, cur, session, tor, geo, received, allowed, redis, anon, audit, webhook,
                   file, siem, peer>>

\* store.reset(key) on the MemoryStore
StoreReset(key) ==
    /\ Idle
    /\ hits' = Reset(hits, key)
    /\ win' = Reset(win, key)
    /\ req' = IF key \in DOMAIN hits THEN Detach(key) ELSE req
    /\ UNCHANGED <<cfg, notifier, now, cur, session, tor, geo, received, allowed, redis, anon, audit, webhook,
                   file, siem, peer>>

\* store.increment(key) on the RedisStore, with a server that answers
RedisIncrementCall(key) ==
    /\ Idle
    /\ StoreMayCount(redis.keys, key)
    /\ redis' = RedisIncrement(redis, key, now)
    /\ UNCHANGED <<cfg, notifier, now, cur, req, hits, session, tor, geo, received,
                   win, allowed, anon, audit, webhook,
                   file, siem, peer>>

\* store.reset(key) on the RedisStore
RedisResetCall(key) ==
    /\ Idle
    /\ redis' = RedisReset(redis, key)
    /\ UNCHANGED <<cfg, notifier, now, cur, req, hits, session, tor, geo, received,
                   win, allowed, anon, audit, webhook,
                   file, siem, peer>>

ServerRecords ==
    {<< >>} \cup {[k \in {"5.5.5.5"} |-> [count |-> c, resetTime |-> WindowMs]] : c \in 1..2}

InitStore ==
    /\ cfg \in Configs
    /\ cfg.enabled /\ cfg.secHeaders
    /\ cfg.rlEnabled /\ cfg.max = 1 /\ ~cfg.useKeyGen /\ cfg.webhooks = "none"
    /\ cfg.blockedIPs = {} /\ ~cfg.logging
    /\ ~cfg.sgEnabled /\ ~cfg.enforceIpBinding /\ ~cfg.enforceUaBinding
    /\ ~cfg.blockTor /\ cfg.blockedCountries = {} /\ cfg.allowedCountries = {}
    /\ now = 0
    /\ cur = 0
    /\ req = [r \in Reqs |-> NewRequest]
    /\ received = 0
    /\ hits = << >>
    /\ session = NoFingerprint
    /\ tor = [exitNodes |-> {}, lastUpdated |-> 0, loading |-> FALSE,
                 fetches |-> 0, lastFailed |-> FALSE]
    /\ geo = [ready |-> FALSE, geoipInitialized |-> FALSE, pending |-> 0]
    /\ notifier = [queue |-> << >>, processing |-> FALSE]
    /\ win = << >>
    /\ allowed = {}
    /\ redis \in [initialized : {FALSE}, keys : ServerRecords]
    /\ anon = NoAddress
    /\ audit = NoAudit
    /\ webhook = NewWebhook(DEFAULT_RETRIES)
    /\ file = NewFileTransport(DEFAULT_MAX_FILES, MaxSize)
    /\ siem = NewOutputs("console", FALSE, FALSE, FALSE, {})
    /\ peer = NewPeer

NextStore ==
    \/ \E key \in StoreKeys : StoreIncrement(key)
    \/ \E key \in StoreKeys : StoreReset(key)
    \/ \E key \in StoreKeys : RedisIncrementCall(key)
    \/ \E key \in StoreKeys : RedisResetCall(key)
    \/ Tick
    \/ Cleanup

SpecStore == InitStore /\ [][NextStore]_vars

\* C19: reset(key) removes the key's record whatever its state: the increment
\* that follows gives count 1 and a window that ends at now + windowMs, and a
\* second reset changes nothing; on the MemoryStore and on the RedisStore.
C19_ResetForgetsKey ==
    \A key \in StoreKeys :
        /\ key \notin DOMAIN Reset(hits, key)
        /\ Increment(Reset(hits, key), key, now)[key]
              = [count |-> 1, resetTime |-> now + WindowMs]
        /\ Reset(Reset(hits, key), key) = Reset(hits, key)
        /\ key \notin DOMAIN RedisReset(redis, key).keys
        /\ RedisIncrement(RedisReset(redis, key), key, now).keys[key]
              = [count |-> 1, resetTime |-> now + WindowMs]
        /\ RedisReset(RedisReset(redis, key), key) = RedisReset(redis, key)

\* ------------------------------------------------------- slow dependencies
\* The whole pipeline with every stage on and every external dependency in
\* flight: the Tor list is being fetched for the first time, the geo database
\* is being loaded, the store's increment resolves, rejects or never settles.
\* The steps of the middleware's own code are taken whenever they can be
\* (weak fairness), and so is the release of a settled request; nothing obliges
\* a dependency to complete: the increment, the Tor fetch, the geo load, the
\* session store's destroy callback and the webhook delivery carry no fairness.
InitHang ==
    /\ Init
    /\ cfg.enabled /\ cfg.secHeaders
    /\ cfg.rlEnabled /\ cfg.max = 1 /\ ~cfg.useKeyGen /\ ~cfg.logging
    /\ cfg.sgEnabled /\ cfg.enforceIpBinding /\ cfg.enforceUaBinding
    /\ cfg.webhooks = "all" /\ cfg.blockedIPs = {"1.2.3.4"}
    /\ cfg.blockTor /\ cfg.blockedCountries = {"RU"} /\ cfg.allowedCountries = {}

OwnStep(r) ==
    \/ StaticBlock(r)
    \/ TorBlock(r)
    \/ GeoBlock(r)
    \/ SessionGuard(r)
    \/ \E apiKey \in ApiKeys, outcome \in {"resolve", "reject", "never"} :
          RateLimitCall(r, apiKey, outcome)
    \/ RateLimitDecide(r)
    \/ RateLimitCatch(r)
    \/ Proceed(r, FALSE)
    \/ Respond(r)
    \/ Finish(r)

NextHang ==
    \/ \E r \in Reqs, ip \in SessionIPs, hasSession \in BOOLEAN :
          Receive(r, ip, "uaX", hasSession)
    \/ \E r \in Reqs : OwnStep(r)
    \/ \E r \in Reqs : DestroyCallback(r)
    \/ \E r \in Reqs : Forget(r)
    \/ \E ok \in BOOLEAN : TorFetchDone(ok)
    \/ \E ok \in BOOLEAN : GeoInitDone(ok)
    \/ SendDone

SpecHang ==
    /\ InitHang /\ [][NextHang]_vars
    /\ \A r \in Reqs : WF_vars(OwnStep(r)) /\ WF_vars(Forget(r))

\* the request was denied or its continuation was invoked
Answered(r) == req[r].status \in {403, 429} \/ req[r].nextCalls >= 1

\* C20: every request that enters the pipeline is eventually denied or passed to
\* its continuation, although the store's increment, the geo database load, the
\* Tor list fetch, the session destroy callback and the webhook delivery may
\* never complete.
C20_NoRequestHangs ==
    \A r \in Reqs : (req[r].pc # "idle") ~> Answered(r)


\* ------------------------------------------------------- binding dimensions
\* request r is at the session guard on a session that has a fingerprint
AtBoundSession(r) ==
    cur = r /\ req[r].pc = "session" /\ req[r].hasSession /\ session.bound

\* C21: the binding dimensions are independent.  On a bound session the guard
\* denies a request exactly when the comparison reports a violation, and with
\* IP binding off that comparison gives the same answer for any two addresses
\* (same User-Agent), with User-Agent binding off the same answer for any two
\* User-Agents (same address); so does the comparison of the stand-alone
\* sessionGuard, for every client fingerprint.
C21_BindingDimensionsIndependent ==
    /\ [][\A r \in Reqs :
            AtBoundSession(r)
            => (req'[r].sg = "violation" <=> Violation(req[r].ip, req[r].ua))
               /\ req'[r].sg \in {"violation", "matched"}]_vars
    /\ [](session.bound
           => /\ ~cfg.enforceIpBinding
                 => \A ip1, ip2 \in IPs, ua \in UAs :
                       Violation(ip1, ua) = Violation(ip2, ua)
              /\ ~cfg.enforceUaBinding
                 => \A ip \in IPs, ua1, ua2 \in UAs :
                       Violation(ip, ua1) = Violation(ip, ua2))
    /\ [](\A fp \in ClientFingerprints :
            /\ ~cfg.enforceIpBinding
               => \A ip1, ip2 \in IPs, ua \in UAs :
                     Hijacked(ip1, ua, fp) = Hijacked(ip2, ua, fp)
            /\ ~cfg.enforceUaBinding
               => \A ip \in IPs, ua1, ua2 \in UAs :
                     Hijacked(ip, ua1, fp) = Hijacked(ip, ua2, fp))

\* with IP binding off and User-Agent binding on, a request from another
\* address than the bound one, with the bound User-Agent, was let through
C21_Witness ==
    \E r \in Reqs :
        /\ ~cfg.enforceIpBinding /\ cfg.enforceUaBinding
        /\ session.bound /\ session.ip # req[r].ip /\ session.userAgent = req[r].ua
        /\ req[r].sg = "matched" /\ req[r].nextCalls = 1


\* ------------------------------------------------------- paths and sessions
\* Spec restricted to the session guards: requests for excluded and other
\* paths, with and without a session, enter the pipeline of nis2Shield (session
\* guard enabled, nothing else able to deny) or the stand-alone sessionGuard
\* middleware; a notifier is configured for every event.
InitGuard ==
    /\ Init
    /\ cfg.enabled /\ cfg.secHeaders
    /\ cfg.sgEnabled /\ ~cfg.rlEnabled /\ cfg.max = 1 /\ ~cfg.useKeyGen
    /\ ~cfg.logging /\ ~cfg.blockTor /\ cfg.webhooks = "all"
    /\ cfg.blockedIPs = {"1.2.3.4"}
    /\ cfg.blockedCountries = {} /\ cfg.allowedCountries = {}

NextGuard ==
    \/ \E r \in Reqs, ip \in SessionIPs, ua \in UAs, hasSession \in BOOLEAN,
          path \in Paths : ReceivePath(r, ip, ua, hasSession, path)
    \/ \E r \in Reqs, ip \in SessionIPs, ua \in UAs, hasSession \in BOOLEAN,
          path \in Paths, clientFp \in ClientFingerprints :
          SessionGuardMiddleware(r, ip, ua, hasSession, path, clientFp)
    \/ \E r \in Reqs : StaticBlock(r)
    \/ \E r \in Reqs : TorBlock(r)
    \/ \E r \in Reqs : GeoBlock(r)
    \/ \E r \in Reqs : SessionGuard(r)
    \/ \E r \in Reqs : DestroyCallback(r)
    \/ \E r \in Reqs : Proceed(r, FALSE)
    \/ \E r \in Reqs : Respond(r)
    \/ \E r \in Reqs : Finish(r)
    \/ \E r \in Reqs : Forget(r)
    \/ SendDone

SpecGuard == InitGuard /\ [][NextGuard]_vars

\* C22: a request whose path starts with a configured excluded prefix bypasses
\* the session fingerprint stage: no fingerprint is recorded or compared for
\* it, the session is left as it is, and it is never denied for a mismatch.
C22_ExcludedPathBypasses ==
    /\ [](\A r \in Reqs :
            IsExcluded(req[r].path)
            => req[r].sg \in {"none", "excluded"} /\ req[r].deniedBy # "session")
    /\ [][\A r \in Reqs :
            cur = r /\ IsExcluded(req[r].path) => session' = session]_vars


\* C23: for a request that carries no session the session guard is a
\* pass-through: it hands the request to its continuation, which runs once,
\* never denies, leaves the session and its fingerprint as they are and calls
\* no notifier; in the pipeline and in the stand-alone middleware.
C23_NoSessionPassThrough ==
    /\ [][\A r \in Reqs :
            cur = r /\ req[r].pc = "session" /\ ~req[r].hasSession
            => /\ req'[r].pc \in {"ratelimit", "proceed"}
               /\ req'[r].sg = "nosession"
               /\ req'[r].status = 0
               /\ req'[r].notifyCalls = req[r].notifyCalls
               /\ session' = session
               /\ notifier' = notifier]_vars
    /\ [][\A r \in Reqs :
            ~req'[r].hasSession /\ req'[r] # req[r] => session' = session]_vars
    /\ [](\A r \in Reqs :
            req[r].pc # "idle" /\ ~req[r].hasSession
            => /\ req[r].sg \in {"none", "nosession", "excluded"}
               /\ req[r].deniedBy = "" /\ req[r].status # 403
               /\ req[r].notifyCalls = 0 /\ req[r].fp = << >>
               /\ req[r].nextCalls <= 1
               /\ req[r].finished => req[r].nextCalls = 1)

\* a request without session went through the pipeline's guard and was answered
\* by the application while another address's fingerprint stayed on the session
C23_Witness ==
    \E r \in Reqs :
        /\ ~req[r].hasSession /\ req[r].sg = "nosession"
        /\ req[r].stages = <<"static", "tor", "geo", "session">>
        /\ req[r].finished /\ req[r].nextCalls = 1 /\ req[r].status = 200
        /\ session.bound /\ session.ip # req[r].ip


\* ------------------------------------------------------- the two stores side by side
\* The same sequence of increment, decrement and reset calls made on a
\* MemoryStore and on a RedisStore whose server starts empty, one call at a
\* time, with the clock and the MemoryStore's sweep in between.
TwinMayCount(key) ==
    /\ StoreMayCount(hits, key)
    /\ IF RedisLive(redis.keys, key, now) THEN redis.keys[key].count < MaxCount ELSE TRUE

TwinIncrement(key) ==
    /\ Idle
    /\ TwinMayCount(key)
    /\ hits' = Increment(hits, key, now)
    /\ redis' = RedisIncrement(redis, key, now)
    /\ UNCHANGED <<cfg, notifier, now, cur, req, session, tor, geo, received, win, allowed, anon, audit, webhook,
                   file, siem, peer>>

TwinDecrement(key) ==
    /\ Idle
    /\ IF RedisLive(redis.keys, key, now) THEN redis.keys[key].count > 0 - MaxCount ELSE TRUE
    /\ hits' = Decrement(hits, key)
    /\ redis' = RedisDecrement(redis, key, now)
    /\ UNCHANGED <<cfg, notifier, now, cur, req, session, tor, geo, received, win, allowed, anon, audit, webhook,
                   file, siem, peer>>

TwinReset(key) ==
    /\ Idle
    /\ hits' = Reset(hits, key)
    /\ redis' = RedisReset(redis, key)
    /\ UNCHANGED <<cfg, notifier, now, cur, req, session, tor, geo, received, win, allowed, anon, audit, webhook,
                   file, siem, peer>>

InitTwin == InitStore /\ redis.keys = << >>

NextTwin ==
    \/ \E key \in StoreKeys : TwinIncrement(key)
    \/ \E key \in StoreKeys : TwinDecrement(key)
    \/ \E key \in StoreKeys : TwinReset(key)
    \/ Tick
    \/ Cleanup

SpecTwin == InitTwin /\ [][NextTwin]_vars

\* C24: the two stores are interchangeable: in every sequence of increment,
\* decrement and reset calls on a key, each increment returns the same count
\* from the MemoryStore and from the RedisStore.
C24_StoresInterchangeable ==
    [][\A key \in StoreKeys :
         TwinIncrement(key) => hits'[key].count = redis'.keys[key].count]_vars


\* ------------------------------------------------------- rate limit per key
\* The rate limiter with the default key (client IP) or with a keyGenerator
\* that reads the X-Api-Key header, clients on two addresses.
InitKey ==
    /\ Init
    /\ cfg.enabled /\ cfg.secHeaders
    /\ cfg.rlEnabled /\ cfg.max = 1 /\ ~cfg.logging /\ cfg.webhooks = "none"
    /\ cfg.blockedIPs = {"1.2.3.4"}
    /\ ~cfg.sgEnabled /\ ~cfg.enforceIpBinding /\ ~cfg.enforceUaBinding
    /\ ~cfg.blockTor /\ cfg.blockedCountries = {} /\ cfg.allowedCountries = {}

SpecKey == InitKey /\ [][NextRate]_vars

\* the record of key k, or none
RecordOf(h, k) == IF k \in DOMAIN h THEN <<h[k]>> ELSE << >>

\* C25: rate-limit accounting is per key: a request resolved to key A (its
\* client IP by default, the keyGenerator's result when one is configured)
\* changes only A's record, and a request is denied only when more than max
\* requests of its own key arrived in the key's current window.
C25_PerKeyAccounting ==
    /\ [][\A r \in Reqs, apiKey \in ApiKeys :
            RateLimitCall(r, apiKey, "resolve") =>
                \A k \in Keys \ {IF cfg.useKeyGen THEN apiKey ELSE req[r].ip} :
                    RecordOf(hits', k) = RecordOf(hits, k)]_vars
    /\ [](\A r \in Reqs :
            /\ req[r].deniedBy = "ratelimit"
            /\ win[req[r].key].start = req[r].wstart
            => win[req[r].key].n > cfg.max)

\* key A is over its quota and a request with another key, the first of its
\* window, has been let through
C25_Witness ==
    \E r \in Reqs, a \in Keys :
        /\ a \in DOMAIN hits /\ hits[a].count > cfg.max /\ hits[a].resetTime > now
        /\ Decided(r) /\ req[r].key # a
        /\ req[r].ord = 1 /\ req[r].count = 1
        /\ req[r].deniedBy = "" /\ req[r].nextCalls = 1


\* ------------------------------------------------------- the disabled middleware
\* nis2Shield({enabled: false}) with every feature of the configuration
\* switched on: requests from every address, with and without a session.
InitOff ==
    /\ Init
    /\ ~cfg.enabled /\ cfg.secHeaders
    /\ cfg.rlEnabled /\ cfg.max = 1 /\ ~cfg.useKeyGen /\ cfg.logging
    /\ cfg.sgEnabled /\ cfg.enforceIpBinding /\ cfg.enforceUaBinding
    /\ cfg.blockTor /\ cfg.webhooks = "all"
    /\ cfg.blockedIPs = {"1.2.3.4"}
    /\ cfg.blockedCountries = {"RU"} /\ cfg.allowedCountries = {}

NextOff ==
    \/ \E r \in Reqs, ip \in IPs, ua \in UAs, hasSession \in BOOLEAN, throws \in BOOLEAN :
          DisabledMiddleware(r, ip, ua, hasSession, throws)
    \/ \E r \in Reqs : Respond(r)
    \/ \E r \in Reqs : Finish(r)
    \/ \E r \in Reqs : Forget(r)
    \/ Tick

SpecOff == InitOff /\ [][NextOff]_vars

\* C26: with enabled: false the middleware is a pure pass-through: every
\* request has its continuation invoked exactly once, no stage runs, no
\* rate-limit counter or session fingerprint is touched and no security or
\* rate-limit header is set.
C26_DisabledPassThrough ==
    /\ [](\A r \in Reqs :
            req[r].pc # "idle" =>
                /\ req[r].pc = "done" /\ req[r].nextCalls = 1
                /\ req[r].stages = << >> /\ req[r].deniedBy = "" /\ req[r].sg = "none"
                /\ req[r].inc = "none" /\ req[r].fp = << >>
                /\ ~req[r].nis2 /\ ~req[r].secHeaders
                /\ req[r].limit = -1 /\ req[r].remaining = -1 /\ req[r].reset = -1
                /\ req[r].listeners = 0 /\ req[r].notifyCalls = 0
                /\ req[r].status \in {0, 200})
    /\ [][/\ hits' = hits /\ session' = session /\ win' = win
          /\ notifier' = notifier /\ tor' = tor /\ geo' = geo]_vars

\* a request from a blocked address was answered by the application while the
\* disabled middleware was configured to block, bind and count
C26_Witness ==
    \E r \in Reqs :
        /\ ~cfg.enabled /\ cfg.rlEnabled /\ cfg.sgEnabled /\ cfg.secHeaders
        /\ req[r].ip \in cfg.blockedIPs /\ req[r].hasSession
        /\ req[r].nextCalls = 1 /\ req[r].status = 200 /\ req[r].finished


\* ------------------------------------------------------- anonymizeIP
\* An address is a sequence of tokens: the separators ":" and "." and the
\* groups between them, so that split and join work on it as on the string.
MaxGroups == 8

\* String.prototype.split on a separator
RECURSIVE SplitOn(_, _)
SplitOn(s, sep) ==
    IF \A i \in 1..Len(s) : s[i] # sep THEN <<s>>
    ELSE LET i == CHOOSE j \in 1..Len(s) :
                      s[j] = sep /\ \A k \in 1..(j - 1) : s[k] # sep
         IN  <<SubSeq(s, 1, i - 1)>> \o SplitOn(SubSeq(s, i + 1, Len(s)), sep)

\* Array.prototype.join
RECURSIVE JoinWith(_, _)
JoinWith(parts, sep) ==
    IF parts = << >> THEN << >>
    ELSE IF Len(parts) = 1 THEN parts[1]
    ELSE parts[1] \o <<sep>> \o JoinWith(Tail(parts), sep)

\* ip.includes(sep)
Includes(s, sep) == \E i \in 1..Len(s) : s[i] = sep

\* parts.slice(0, 3)
Slice3(parts) == SubSeq(parts, 1, IF Len(parts) < 3 THEN Len(parts) ELSE 3)

\* ':xxxx:xxxx:xxxx:xxxx:xxxx'
MaskedGroups == <<":", "xxxx", ":", "xxxx", ":", "xxxx", ":", "xxxx", ":", "xxxx">>

\* the IPv4 branch of both implementations: a string of four dot-separated
\* parts has its last part replaced by 0, any other string is returned as is
MaskIPv4(s) ==
    IF Len(SplitOn(s, ".")) = 4
    THEN JoinWith(Slice3(SplitOn(s, ".")), ".") \o <<".", "0">>
    ELSE s

\* '::ffff:'
MappedPrefix == <<":", ":", "ffff", ":">>

\* anonymizeIP of utils/ipUtils
anonymizeIP(ip) ==
    IF ip = << >> \/ ip = <<"unknown">> THEN <<"unknown">>
    ELSE LET s == IF StartsWith(ip, MappedPrefix)
                  THEN SubSeq(ip, Len(MappedPrefix) + 1, Len(ip)) ELSE ip
         IN  IF Includes(s, ":")
             THEN IF Len(SplitOn(s, ":")) >= 3
                  THEN JoinWith(Slice3(SplitOn(s, ":")), ":") \o MaskedGroups
                  ELSE s
             ELSE MaskIPv4(s)

\* anonymizeIP of utils/cryptoUtils
CryptoAnonymizeIP(ip) ==
    IF ip = << >> THEN <<"unknown">>
    ELSE IF Includes(ip, ":")
         THEN IF Len(SplitOn(ip, ":")) > 3
              THEN JoinWith(Slice3(SplitOn(ip, ":")), ":") \o MaskedGroups
              ELSE ip
         ELSE MaskIPv4(ip)

\* the addresses a request can come from
Octets == {"0", "50"}
HexGroups == {<<"ffff">>, <<"2001">>}

IPv4Addresses ==
    {<<a, ".", b, ".", c, ".", d>> : a \in Octets, b \in Octets, c \in Octets, d \in Octets}

\* the groups of an IPv6 address: at most one '::', which shows as two empty
\* groups at either end, one inside, or three when it is the whole address
ValidGroups(g) ==
    LET n == Len(g)
        empty == {i \in 1..n : g[i] = << >>}
    IN  \/ empty = {}
        \/ \E i \in 2..(n - 1) : empty = {i}
        \/ n >= 3 /\ empty = {1, 2}
        \/ n >= 3 /\ empty = {n - 1, n}
        \/ n = 3 /\ empty = {1, 2, 3}

IPv6Addresses ==
    {JoinWith(g, ":") :
        g \in {h \in UNION {[1..n -> HexGroups \cup {<< >>}] : n \in 3..MaxGroups} :
                   ValidGroups(h)}}

MappedAddresses == {MappedPrefix \o a : a \in IPv4Addresses}

Addresses ==
    IPv4Addresses \cup IPv6Addresses \cup MappedAddresses \cup {<<"unknown">>, << >>}

\* anonymizeIP is applied to the address, then to its own result
Anonymize ==
    /\ Len(anon.out) < 2
    /\ anon' = [anon EXCEPT !.out =
                   Append(@, LET x == IF anon.out = << >> THEN anon.ip ELSE anon.out[1]
                             IN  IF anon.impl = "ipUtils" THEN anonymizeIP(x)
                                 ELSE CryptoAnonymizeIP(x))]
    /\ UNCHANGED <<cfg, now, cur, req, received, hits, session, tor, geo, notifier, win,
                   allowed, redis, audit, webhook,
                   file, siem, peer>>

\* the default configuration: auditing with anonymizeIP switched on
AuditConfig ==
    [ enabled |-> TRUE, secHeaders |-> TRUE, rlEnabled |-> FALSE, max |-> 1,
      useKeyGen |-> FALSE, sgEnabled |-> FALSE, enforceIpBinding |-> FALSE,
      enforceUaBinding |-> FALSE, logging |-> TRUE, blockTor |-> FALSE,
      webhooks |-> "none", blockedIPs |-> {}, blockedCountries |-> {},
      allowedCountries |-> {} ]

InitAnon ==
    /\ Constructed
    /\ cfg = AuditConfig
    /\ anon \in [impl : {"ipUtils", "cryptoUtils"}, ip : Addresses, out : {<< >>}]
    /\ audit = NoAudit
    /\ webhook = NewWebhook(DEFAULT_RETRIES)
    /\ file = NewFileTransport(DEFAULT_MAX_FILES, MaxSize)
    /\ siem = NewOutputs("console", FALSE, FALSE, FALSE, {})
    /\ peer = NewPeer

SpecAnon == InitAnon /\ [][Anonymize]_vars

\* C27: IP anonymization is idempotent on every address (IPv4, IPv6,
\* IPv4-mapped IPv6, 'unknown' or empty): anonymizing the result again gives
\* the same result, and an IPv4 address a.b.c.d maps to a.b.c.0.
C27_AnonymizeIdempotent ==
    /\ Len(anon.out) = 2 => anon.out[2] = anon.out[1]
    /\ Len(anon.out) >= 1 /\ anon.ip \in IPv4Addresses =>
           anon.out[1] = <<anon.ip[1], ".", anon.ip[3], ".", anon.ip[5], ".", "0">>

\* ------------------------------------------------------- increments in flight
\* C28: increment is atomic per key under interleaved requests: the increments
\* of a key in one window return distinct consecutive counts, so the k-th
\* request of the window obtains the count k, and the request that opens a
\* window obtains 1.
C28_IncrementAtomic ==
    \A r \in Reqs : Decided(r) => req[r].count = req[r].ord


\* ------------------------------------------------------- decrement
\* C29: decrement is best-effort and bounded: it lowers a key's count by 1 only
\* when a record exists with count > 0, never makes a count negative and never
\* creates a record for an unknown key, so every count returned by increment is
\* at least 1; on the MemoryStore and on the RedisStore.
C29_DecrementBounded ==
    /\ [](\A key \in StoreKeys :
            /\ key \in DOMAIN hits => hits[key].count >= 0
            /\ RedisLive(redis.keys, key, now) => redis.keys[key].count >= 0)
    /\ [][\A key \in StoreKeys :
            /\ TwinDecrement(key) =>
                  /\ key \in DOMAIN hits' => key \in DOMAIN hits
                  /\ RedisLive(redis'.keys, key, now) => RedisLive(redis.keys, key, now)
            /\ TwinIncrement(key) =>
                  /\ hits'[key].count >= 1
                  /\ redis'.keys[key].count >= 1]_vars


\* ------------------------------------------------------- the periodic sweep
\* the contents a MemoryStore can have, swept or not
AllStores ==
    UNION {[S -> [count : 0..MaxCount, resetTime : 1..(MaxTime + WindowMs)]] :
              S \in SUBSET StoreKeys}

\* the stores that hold the same live records as h at time t: what h would be
\* had the sweep run at other moments, or never
SameLive(a, b, t) == Sweep(a, t) = Sweep(b, t)

SweptOtherwise(h, t) == {b \in AllStores : SameLive(b, h, t)}

\* C30: the periodic sweep of the MemoryStore removes exactly the records whose
\* window has expired and never a live one, and running it at any point of a
\* sequence of increment, decrement and reset calls changes none of the values
\* those calls return: a store swept at other moments returns the same record
\* from every increment and stays the same store up to expired records.
C30_SweepUnobservable ==
    /\ [][Cleanup =>
            /\ DOMAIN hits' = {k \in DOMAIN hits : ~Expired(hits, k, now)}
            /\ \A k \in DOMAIN hits' : hits'[k] = hits[k]]_vars
    /\ [](\A b \in SweptOtherwise(hits, now), key \in StoreKeys :
            /\ Increment(b, key, now)[key] = Increment(hits, key, now)[key]
            /\ SameLive(Increment(hits, key, now), Increment(b, key, now), now)
            /\ SameLive(Decrement(hits, key), Decrement(b, key), now)
            /\ SameLive(Reset(hits, key), Reset(b, key), now)
            /\ SameLive(Sweep(hits, now), b, now)
            /\ SameLive(hits, b, now + 1))

\* the sweep has removed the expired record of one key (the server still holds
\* the key that was counted with it) and left the live record of another
C30_Witness ==
    \E gone \in StoreKeys, kept \in StoreKeys :
        /\ gone \notin DOMAIN hits
        /\ gone \in DOMAIN redis.keys
        /\ redis.keys[gone].count >= 1
        /\ redis.keys[gone].resetTime \in 1..now
        /\ kept \in DOMAIN hits /\ hits[kept].resetTime > now /\ hits[kept].count >= 1


\* ------------------------------------------------------- the window's end
\* store.decrement(key) on the MemoryStore, called by the application
StoreDecrement(key) ==
    /\ Idle
    /\ hits' = Decrement(hits, key)
    /\ UNCHANGED <<cfg, notifier, now, cur, req, session, tor, geo, received, win, allowed,
                   redis, anon, audit, webhook,
                   file, siem, peer>>

NextLive ==
    \/ NextRate
    \/ \E key \in RateIPs : StoreDecrement(key)

SpecLive == InitRate /\ [][NextLive]_vars

\* C31: within a live window the record's reset time never changes: increments
\* and decrements, those of denied requests included, leave it untouched, so a
\* denied request is told the end of the window in which the key's first hit
\* fell.
C31_ResetTimeFixed ==
    /\ [][\A key \in RateIPs :
            /\ key \in DOMAIN hits /\ hits[key].resetTime > now
            /\ key \in DOMAIN hits'
            => hits'[key].resetTime = hits[key].resetTime]_vars
    /\ [](\A r \in Reqs :
            req[r].inc = "resolve" => req[r].resetTime = req[r].wstart + WindowMs)

\* a request was denied after the window's first hit, later than the window's
\* start, and the record still ends where the first hit put it
C31_Witness ==
    \E r \in Reqs :
        /\ req[r].deniedBy = "ratelimit"
        /\ req[r].at > req[r].wstart
        /\ hits[req[r].key].count > cfg.max
        /\ hits[req[r].key].resetTime = req[r].wstart + WindowMs


\* ------------------------------------------------------- formatLogEntry
\* An object is the sequence of its <<name, value>> properties in insertion
\* order, nested names written with a dot; a value is a sequence of tokens.
Undefined == <<"undefined">>

Has(obj, name) == \E i \in 1..Len(obj) : obj[i][1] = name

Get(obj, name) ==
    IF Has(obj, name) THEN obj[CHOOSE i \in 1..Len(obj) : obj[i][1] = name][2]
    ELSE Undefined

\* obj[name] = value: an existing property keeps its place, a new one is last
Set(obj, name, value) ==
    IF Has(obj, name)
    THEN [i \in 1..Len(obj) |-> IF obj[i][1] = name THEN <<name, value>> ELSE obj[i]]
    ELSE Append(obj, <<name, value>>)

\* the object without a property
Without(obj, name) ==
    LET Other(p) == p[1] # name IN SelectSeq(obj, Other)

\* JSON.stringify: the properties in order, undefined ones left out
Stringify(obj) ==
    LET Defined(p) == p[2] # Undefined IN <<"json", SelectSeq(obj, Defined)>>

\* JSON.parse of such a text
Parse(text) == text[2]

\* encrypt: `${iv}:${ciphertext}` under a random IV
Encrypt(text, key, iv) == <<"aes", key, iv>> \o text

\* generateHMAC: the HMAC-SHA256 of JSON.stringify(data) under the key; the
\* digest stands for the text and the key it was computed from
generateHMAC(data, key) == <<"hmac", key, Stringify(data)>>

\* steps 1 and 2 of formatLogEntry: the timestamp, IP anonymization, PII
\* encryption of user.id and of the metadata fields in piiFields
Prepared(base, opts, iv) ==
    LET l0 == Append(base, <<"timestamp", <<"T">>>>)
        l1 == IF opts.anonymizeIP
              THEN Set(l0, "request.ip", anonymizeIP(Get(l0, "request.ip")))
              ELSE l0
        enc == opts.encryptPII /\ opts.encryptionKey # ""
        l2 == IF enc /\ Get(l1, "user.id") # Undefined
              THEN Set(l1, "user.id", Encrypt(Get(l1, "user.id"), opts.encryptionKey, iv))
              ELSE l1
    IN  IF enc /\ Has(l2, "metadata.email")
        THEN Set(l2, "metadata.email",
                 Encrypt(Get(l2, "metadata.email"), opts.encryptionKey, iv))
        ELSE l2

\* a formatLogEntry that signs the record before it is anonymized and encrypted
formatLogEntrySignsFirst(base, opts, iv) ==
    IF opts.integrityKey # ""
    THEN Append(Prepared(base, opts, iv),
                <<"integrity_hash",
                  generateHMAC(Append(base, <<"timestamp", <<"T">>>>), opts.integrityKey)>>)
    ELSE Prepared(base, opts, iv)

\* formatLogEntry: step 3 signs the record steps 1 and 2 have produced
formatLogEntry(base, opts, iv) ==
    IF opts.integrityKey # ""
    THEN Append(Prepared(base, opts, iv),
                <<"integrity_hash",
                  generateHMAC(Prepared(base, opts, iv), opts.integrityKey)>>)
    ELSE Prepared(base, opts, iv)

\* baseLog as handleAuditing builds it; user is undefined without a user id
BaseLogs ==
    {<< <<"level", <<"INFO">>>>, <<"request.ip", ip>>, <<"user.id", id>> >> \o md :
        ip \in {<<"192", ".", "168", ".", "1", ".", "50">>, <<":", ":", "1">>,
                <<"unknown">>},
        id \in {Undefined, <<"user-123">>},
        md \in {<< >>, << <<"metadata.email", <<"a@b">>>> >>}}

LogOptions ==
    [anonymizeIP : BOOLEAN, encryptPII : BOOLEAN,
     encryptionKey : {"", "K"}, integrityKey : {"", "secret-hmac-key"}]

\* handleAuditing: the record is formatted and outputLog emits JSON.stringify
\* of it
OutputLog(iv) ==
    /\ audit.emitted = << >>
    /\ audit' = [audit EXCEPT !.emitted = Stringify(formatLogEntry(audit.base, audit.opts, iv))]
    /\ UNCHANGED <<cfg, now, cur, req, received, hits, session, tor, geo, notifier, win,
                   allowed, redis, anon, webhook,
                   file, siem, peer>>

InitAudit ==
    /\ Constructed
    /\ cfg = AuditConfig
    /\ anon = NoAddress
    /\ audit \in [opts : LogOptions, base : BaseLogs, emitted : {<< >>}]
    /\ webhook = NewWebhook(DEFAULT_RETRIES)
    /\ file = NewFileTransport(DEFAULT_MAX_FILES, MaxSize)
    /\ siem = NewOutputs("console", FALSE, FALSE, FALSE, {})
    /\ peer = NewPeer

NextAudit == \E iv \in {"iv1", "iv2"} : OutputLog(iv)

SpecAudit == InitAudit /\ [][NextAudit]_vars

\* C32: the integrity hash is computed last, over the record exactly as
\* emitted minus the integrity_hash field, after IP anonymization and PII
\* encryption: the HMAC recomputed with the same key over the emitted record
\* without integrity_hash is the emitted integrity_hash.
C32_HashOverEmittedRecord ==
    audit.emitted # << >> /\ audit.opts.integrityKey # "" =>
        LET rec == Parse(audit.emitted)
        IN  /\ rec[Len(rec)][1] = "integrity_hash"
            /\ generateHMAC(Without(rec, "integrity_hash"), audit.opts.integrityKey)
                  = Get(rec, "integrity_hash")
            /\ audit.opts.anonymizeIP =>
                  Get(rec, "request.ip") = anonymizeIP(Get(audit.base, "request.ip"))

\* a signed record whose address was anonymized and whose user id was encrypted
C32_Witness ==
    /\ audit.emitted # << >>
    /\ audit.opts.integrityKey # ""
    /\ Get(Parse(audit.emitted), "request.ip") # Get(audit.base, "request.ip")
    /\ Get(audit.base, "user.id") # Undefined
    /\ Get(Parse(audit.emitted), "user.id") # Get(audit.base, "user.id")


\* ------------------------------------------------------- webhook delivery
\* processQueue has shifted payload p and calls sendWithRetry(p), which runs to
\* its first await: the first send() when the loop is entered, else the return
StartSendWithRetry(w, p) ==
    IF 1 <= w.retries
    THEN [w EXCEPT !.current = p, !.attempt = 1, !.pc = "sending", !.sends = @ + 1,
                   !.attempts[p] = @ + 1, !.started = Append(@, p)]
    ELSE [w EXCEPT !.current = p, !.attempt = 1, !.pc = "returned",
                   !.outcome[p] = "dropped", !.started = Append(@, p)]

\* a processQueue that does not look at the processing flag
ProcessQueueUnguarded(w) ==
    IF w.queue = << >> THEN w
    ELSE StartSendWithRetry([w EXCEPT !.processing = TRUE, !.queue = Tail(@)], Head(w.queue))

\* processQueue from its start to its first await
ProcessQueue(w) ==
    IF w.processing \/ w.queue = << >> THEN w
    ELSE StartSendWithRetry([w EXCEPT !.processing = TRUE, !.queue = Tail(@)], Head(w.queue))

\* notify(payload): dropped when its event is not enabled, else queued and
\* processQueue() is called
WebhookNotify(enabled) ==
    /\ webhook.calls < MaxPayloads
    /\ webhook' =
         IF ~enabled THEN [webhook EXCEPT !.calls = @ + 1]
         ELSE ProcessQueue([webhook EXCEPT !.calls = @ + 1,
                                           !.accepted = @ \cup {webhook.calls + 1},
                                           !.queue = Append(@, webhook.calls + 1)])
    /\ UNCHANGED <<cfg, now, cur, req, received, hits, session, tor, geo, notifier, win,
                   allowed, redis, anon, audit,
                   file, siem, peer>>

\* `await this.send(payload)` settles: the response is ok, or send throws (a
\* status that is not ok, a network error, the abort at the timeout)
SendSettles(ok) ==
    /\ webhook.pc = "sending"
    /\ webhook' =
         IF ok
         THEN [webhook EXCEPT !.pc = "returned", !.sends = @ - 1,
                              !.outcome[webhook.current] = "delivered"]
         ELSE IF webhook.attempt < webhook.retries
         THEN [webhook EXCEPT !.pc = "sleeping", !.sends = @ - 1]
         ELSE [webhook EXCEPT !.pc = "returned", !.sends = @ - 1,
                              !.outcome[webhook.current] = "dropped"]
    /\ UNCHANGED <<cfg, now, cur, req, received, hits, session, tor, geo, notifier, win,
                   allowed, redis, anon, audit,
                   file, siem, peer>>

\* the backoff sleep ends: attempt++ and the next send()
Wake ==
    /\ webhook.pc = "sleeping"
    /\ webhook' = [webhook EXCEPT !.pc = "sending", !.attempt = @ + 1, !.sends = @ + 1,
                                  !.attempts[webhook.current] = @ + 1]
    /\ UNCHANGED <<cfg, now, cur, req, received, hits, session, tor, geo, notifier, win,
                   allowed, redis, anon, audit,
                   file, siem, peer>>

\* processQueue resumes after `await this.sendWithRetry(payload)`: the while
\* loop takes the next payload, or ends and processing becomes false
Resume ==
    /\ webhook.pc = "returned"
    /\ webhook' =
         IF webhook.queue # << >>
         THEN StartSendWithRetry([webhook EXCEPT !.queue = Tail(@)], Head(webhook.queue))
         ELSE [webhook EXCEPT !.processing = FALSE, !.pc = "idle", !.current = 0,
                              !.attempt = 0]
    /\ UNCHANGED <<cfg, now, cur, req, received, hits, session, tor, geo, notifier, win,
                   allowed, redis, anon, audit,
                   file, siem, peer>>

\* a notifier with a configured number of retries, or with the default
InitRetry ==
    /\ Constructed
    /\ cfg = AuditConfig
    /\ anon = NoAddress
    /\ audit = NoAudit
    /\ webhook \in {NewWebhook(n) : n \in (0..MaxRetries) \cup {DEFAULT_RETRIES}}
    /\ file = NewFileTransport(DEFAULT_MAX_FILES, MaxSize)
    /\ siem = NewOutputs("console", FALSE, FALSE, FALSE, {})
    /\ peer = NewPeer

NextRetry ==
    \/ \E enabled \in BOOLEAN : WebhookNotify(enabled)
    \/ \E ok \in BOOLEAN : SendSettles(ok)
    \/ Wake
    \/ Resume

SpecRetry == InitRetry /\ [][NextRetry]_vars

\* sendWithRetry has returned for payload p
Finished(p) == webhook.outcome[p] # "none"

\* C33: delivery uses bounded retry: each payload notify() accepted is
\* attempted at least once and at most `retries` times, a further attempt
\* happens only after a failed one, and after the last failed attempt the
\* payload is dropped and the queue continues with the next payload.
C33_BoundedRetry ==
    /\ [](\A p \in webhook.accepted :
            /\ webhook.attempts[p] <= webhook.retries
            /\ Finished(p) => webhook.attempts[p] >= 1
            /\ webhook.outcome[p] = "dropped" => webhook.attempts[p] = webhook.retries)
    /\ [][\A p \in 1..MaxPayloads :
            /\ webhook'.attempts[p] > webhook.attempts[p] /\ webhook.attempts[p] >= 1
                  => webhook.pc = "sleeping" /\ webhook.current = p
            /\ webhook.outcome[p] = "none" /\ webhook'.outcome[p] = "dropped"
                  => webhook'.pc = "returned"
            /\ webhook.pc = "returned" /\ webhook.outcome[webhook.current] = "dropped"
                /\ webhook.queue # << >> /\ webhook'.started # webhook.started
                  => webhook'.current = Head(webhook.queue)]_vars


\* the payloads taken so far followed by those waiting
InOrder == webhook.started \o webhook.queue

\* C34: the notifier drains its queue single-flight and in FIFO order under
\* interleaved notify() calls: at most one send is in progress at any time,
\* payloads are taken in notify() order, and a payload queued while the loop
\* runs is never stranded: whenever processing is false the queue is empty.
C34_SingleFlightFifo ==
    /\ webhook.sends <= 1
    /\ webhook.sends = 1 <=> webhook.pc = "sending"
    /\ {InOrder[i] : i \in 1..Len(InOrder)} = webhook.accepted
    /\ \A i \in 1..(Len(InOrder) - 1) : InOrder[i] < InOrder[i + 1]
    /\ ~webhook.processing => webhook.queue = << >>
    /\ \A p \in 1..MaxPayloads :
          Finished(p) /\ p # webhook.current => \A q \in webhook.accepted : q < p => Finished(q)

\* two payloads were queued while the first one was being retried, and the
\* loop has gone on to the second of the three
C34_Witness ==
    /\ webhook.processing
    /\ Len(webhook.started) = 2
    /\ Len(webhook.queue) = 1
    /\ webhook.attempts[webhook.started[1]] >= 2
    /\ webhook.pc = "sending"


\* ------------------------------------------------------- Tor list fetches
\* TorDetector.refresh(): lastUpdated = 0, then fetchTorExitNodes()
TorRefresh ==
    /\ Idle
    /\ tor' = FetchTorExitNodes([tor EXCEPT !.lastUpdated = 0])
    /\ UNCHANGED <<cfg, notifier, now, cur, req, hits, session, geo, received, win, allowed,
                   redis, anon, audit, webhook,
                   file, siem, peer>>

NextFetch ==
    \/ NextTor
    \/ TorRefresh

SpecFetch == InitTor /\ [][NextFetch]_vars

\* C35: at most one Tor exit-list fetch is in flight at any time across all
\* requests and refresh() calls, and loading is cleared after every fetch,
\* successful or failed: a failed fetch leaves the cached set in place and a
\* later stale check or refresh starts a fetch again.
C35_SingleTorFetch ==
    /\ [](/\ tor.fetches <= 1
          /\ tor.loading <=> tor.fetches = 1
          /\ ~tor.loading => FetchTorExitNodes(tor).fetches = 1
          /\ ~tor.loading /\ Stale => TorAfterAsyncCheck("5.5.5.5").fetches = 1)
    /\ [][/\ tor'.fetches < tor.fetches => ~tor'.loading
          /\ TorFetchDone(FALSE) =>
                tor'.exitNodes = tor.exitNodes /\ tor'.lastUpdated = tor.lastUpdated]_vars

\* a fetch failed, the old set is still cached, and the next fetch is in flight
C35_Witness ==
    /\ tor.lastFailed
    /\ tor.exitNodes = OldExitList
    /\ tor.loading /\ tor.fetches = 1


\* ------------------------------------------------------- GeoIP initialisation
\* C36: requests with geo rules call the geo service's init on every request
\* until the first init promise resolves; after that resolution, whether the
\* database was loaded or init returned false, no request calls init again,
\* and geo rules are enforced only on requests that find the service ready.
C36_GeoInitUntilFirstResolution ==
    /\ [][\A r \in Reqs :
            cur = r /\ req[r].pc = "geo"
            => /\ HasGeoBlocking /\ ~geo.geoipInitialized => geo'.pending = geo.pending + 1
               /\ ~HasGeoBlocking \/ geo.geoipInitialized => geo' = geo
               /\ req'[r].deniedBy = "geo" => HasGeoBlocking /\ geo.ready]_vars
    /\ [][/\ geo'.pending < geo.pending => geo'.geoipInitialized
          /\ geo.geoipInitialized =>
                geo'.geoipInitialized /\ geo'.pending <= geo.pending]_vars

\* the first init returned false; a later request from a blocked country went
\* through the geo stage without a new init and without being denied
C36_Witness ==
    \E r \in Reqs :
        /\ HasGeoBlocking /\ cfg.blockedCountries # {}
        /\ geo.geoipInitialized /\ ~geo.ready /\ geo.pending = 0
        /\ received > 1
        /\ DbCountry(req[r].ip) \in cfg.blockedCountries
        /\ req[r].stages # << >> /\ req[r].stages[Len(req[r].stages)] = "geo"
        /\ req[r].deniedBy = ""


\* ------------------------------------------------------- FileTransport
\* Every call of fs succeeds and one write runs at a time; a line is never
\* larger than maxSize, so rotate() always finds the log file.

\* unlink(name)
Unlink(fs, name) == [k \in DOMAIN fs \ {name} |-> fs[k]]

\* `if (existsSync(from)) await rename(from, to)`: rename replaces the target
RenameIfExists(fs, from, to) ==
    IF from \in DOMAIN fs
    THEN [k \in (DOMAIN fs \ {from}) \cup {to} |-> IF k = to THEN fs[from] ELSE fs[k]]
    ELSE fs

\* `for (let i = maxFiles - 1; i >= 1; i--)`: from is the log file when i is 1
\* and the file with suffix i - 1 otherwise, to is the file with suffix i
RECURSIVE RotateLoop(_, _)
RotateLoop(fs, i) ==
    IF i < 1 THEN fs
    ELSE RotateLoop(RenameIfExists(fs, IF i = 1 THEN 0 ELSE i - 1, i), i - 1)

\* rotate(): the oldest file is deleted, the loop renames, the log file is
\* renamed to suffix 1 if it is still there, the size counter is reset
rotate(f) ==
    LET deleted == Unlink(f.files, f.maxFiles)
        shifted == RotateLoop(deleted, f.maxFiles - 1)
    IN  [f EXCEPT !.files = RenameIfExists(shifted, 0, 1),
                  !.currentSize = 0,
                  !.rotated = IF 0 \in DOMAIN f.files THEN <<f.files[0]>> \o @ ELSE @]

\* appendFile(filePath, content): creates the file, a new generation, if absent
appendFile(f, size) ==
    IF 0 \in DOMAIN f.files
    THEN [f EXCEPT !.currentSize = @ + size]
    ELSE [f EXCEPT !.files = [k \in DOMAIN f.files \cup {0} |->
                                 IF k = 0 THEN f.created + 1 ELSE f.files[k]],
                   !.created = @ + 1,
                   !.currentSize = @ + size]

\* write(line) with a line of `size` bytes
FileWrite(size) ==
    /\ size <= file.maxSize
    /\ file.created < MaxGenerations
    /\ file' = appendFile(IF file.currentSize + size > file.maxSize
                          THEN rotate(file) ELSE file, size)
    /\ UNCHANGED <<cfg, now, cur, req, received, hits, session, tor, geo, notifier, win,
                   allowed, redis, anon, audit, webhook, siem, peer>>

InitFile ==
    /\ Constructed
    /\ cfg = AuditConfig
    /\ anon = NoAddress
    /\ audit = NoAudit
    /\ webhook = NewWebhook(DEFAULT_RETRIES)
    /\ file \in {NewFileTransport(n, m) : n \in (1..MaxFiles) \cup {DEFAULT_MAX_FILES},
                                          m \in 1..MaxSize}
    /\ siem = NewOutputs("console", FALSE, FALSE, FALSE, {})
    /\ peer = NewPeer

NextFile == \E size \in 1..MaxSize : FileWrite(size)

SpecFile == InitFile /\ [][NextFile]_vars

\* C37: besides the log file only the files with suffixes 1 .. maxFiles exist,
\* and once maxFiles rotations have happened the maxFiles most recently rotated
\* generations are all on disk in age order: suffix 1 the newest, suffix
\* maxFiles the oldest.
C37_RotationKeepsMaxFiles ==
    /\ \A name \in DOMAIN file.files : name \in 0..file.maxFiles
    /\ Len(file.rotated) >= file.maxFiles =>
          \A i \in 1..file.maxFiles :
              i \in DOMAIN file.files /\ file.files[i] = file.rotated[i]


\* ------------------------------------------------------- outputLog and SIEM
\* SiemTransportManager.broadcast: send() is called on every transport, each
\* with its own catch
Broadcast(s) ==
    [s EXCEPT !.broadcasts = @ + 1,
              !.sending = [p \in ProviderSet |->
                              IF p \in s.providers THEN @[p] + 1 ELSE @[p]]]

\* outputLog for one record built by handleAuditing.  The console branch writes
\* the line; the file branch returns when there is no filePath and hands the
\* line to the file transport otherwise; the custom branch calls the handler,
\* which returns or throws; the broadcast follows when siem.enabled.
OutputRecord(throws) ==
    /\ siem.produced < MaxRecords
    /\ throws => siem.output = "custom" /\ siem.customHandler
    /\ LET made == [siem EXCEPT !.produced = @ + 1]
           primary == [made EXCEPT !.primary = @ + 1]
       IN  siem' =
             IF siem.output = "console"
             THEN IF siem.siemEnabled THEN Broadcast(primary) ELSE primary
             ELSE IF siem.output = "file"
             THEN IF ~siem.filePath THEN made
                  ELSE IF siem.siemEnabled THEN Broadcast(primary) ELSE primary
             ELSE IF siem.customHandler
             THEN IF throws THEN made
                  ELSE IF siem.siemEnabled THEN Broadcast(primary) ELSE primary
             ELSE IF siem.siemEnabled THEN Broadcast(made) ELSE made
    /\ UNCHANGED <<cfg, now, cur, req, received, hits, session, tor, geo, notifier, win,
                   allowed, redis, anon, audit, webhook, file, peer>>

\* one transport's send() settles: the POST went through, or it was rejected
\* and the catch logged the error
SiemSendSettles(p, ok) ==
    /\ siem.sending[p] > 0
    /\ siem' = [siem EXCEPT !.sending[p] = @ - 1,
                            !.arrived[p] = IF ok THEN @ + 1 ELSE @]
    /\ UNCHANGED <<cfg, now, cur, req, received, hits, session, tor, geo, notifier, win,
                   allowed, redis, anon, audit, webhook, file, peer>>

InitSiem ==
    /\ Constructed
    /\ cfg = AuditConfig
    /\ anon = NoAddress
    /\ audit = NoAudit
    /\ webhook = NewWebhook(DEFAULT_RETRIES)
    /\ file = NewFileTransport(DEFAULT_MAX_FILES, MaxSize)
    /\ siem \in {NewOutputs(o, fp, ch, en, ps) :
                    o \in {"console", "file", "custom"}, fp \in BOOLEAN,
                    ch \in BOOLEAN, en \in BOOLEAN, ps \in SUBSET ProviderSet}
    /\ peer = NewPeer

NextSiem ==
    \/ \E throws \in BOOLEAN : OutputRecord(throws)
    \/ \E p \in ProviderSet, ok \in BOOLEAN : SiemSendSettles(p, ok)

SpecSiem == InitSiem /\ [][NextSiem]_vars

\* C38: with SIEM enabled every audit record is handed to every SIEM transport,
\* whatever the primary output is and whether or not it succeeded, and a
\* transport whose send fails leaves the sends of the other transports alone.
C38_SiemAlwaysBroadcast ==
    /\ [][siem'.produced = siem.produced + 1 /\ siem.siemEnabled =>
            \A p \in siem.providers : siem'.sending[p] = siem.sending[p] + 1]_vars
    /\ [][\A p \in ProviderSet :
            SiemSendSettles(p, FALSE) =>
                \A q \in ProviderSet \ {p} :
                    /\ siem'.sending[q] = siem.sending[q]
                    /\ siem'.arrived[q] = siem.arrived[q]]_vars


\* ------------------------------------------------------- two instances
\* the second instance's own requests with this key: a window starts with the
\* first of them and lasts windowMs
PeerArrive(own, key, t) ==
    IF key \notin DOMAIN own \/ own[key].start + WindowMs <= t
    THEN Put(own, key, [start |-> t, n |-> 1])
    ELSE Put(own, key, [start |-> own[key].start, n |-> own[key].n + 1])

\* a second instance whose closure holds the first instance's store
PeerRateLimitSharedStore(key) ==
    /\ Idle
    /\ StoreMayCount(hits, key)
    /\ hits' = Increment(hits, key, now)
    /\ peer' = [peer EXCEPT !.own = PeerArrive(@, key, now)]
    /\ UNCHANGED <<cfg, notifier, now, cur, req, session, tor, geo, received, win, allowed,
                   redis, anon, audit, webhook, file, siem>>

\* the rate-limit stage of the second instance for a request with this key:
\* store.increment(key) on the store its nis2Shield call created
PeerRateLimit(key) ==
    /\ Idle
    /\ StoreMayCount(peer.hits, key)
    /\ peer' = [hits |-> Increment(peer.hits, key, now),
                own |-> PeerArrive(peer.own, key, now)]
    /\ UNCHANGED <<cfg, notifier, now, cur, req, session, tor, geo, received, win, allowed,
                   redis, anon, audit, webhook, file, siem, hits>>

InitPeer == InitKey /\ ~cfg.useKeyGen

NextPeer ==
    \/ NextRate
    \/ \E key \in RateIPs : PeerRateLimit(key)

SpecPeer == InitPeer /\ [][NextPeer]_vars

\* C39: each instance counts in its own store.  A request handled by the second
\* instance leaves the first instance's counts, windows and decisions as they
\* are, every step of the first instance leaves the second instance's store as
\* it is, and the second instance's count for a key is the number of its own
\* requests in its own window, also for a key the first instance counts.
C39_StoresIsolated ==
    /\ [][(\E key \in RateIPs : PeerRateLimit(key)) =>
            hits' = hits /\ req' = req /\ allowed' = allowed /\ win' = win]_vars
    /\ [][hits' # hits \/ req' # req => peer' = peer]_vars
    /\ [](\A key \in DOMAIN peer.hits :
             /\ peer.hits[key].count = peer.own[key].n
             /\ peer.hits[key].resetTime = peer.own[key].start + WindowMs)

\* the first instance has denied a request for a key that the second instance,
\* in a live window of its own, holds under its limit
C39_Witness ==
    \E r \in Reqs :
        /\ req[r].deniedBy = "ratelimit"
        /\ req[r].key \in DOMAIN hits /\ hits[req[r].key].count > cfg.max
        /\ req[r].key \in DOMAIN peer.hits
        /\ peer.hits[req[r].key].resetTime > now
        /\ peer.hits[req[r].key].count <= cfg.max
        /\ peer.hits[req[r].key].resetTime # hits[req[r].key].resetTime

====
